---- MODULE Spec2Model ----
(***************************************************************************)
(* Model of telegram_bot.py: the backoff wrapper api_request_with_backoff, *)
(* the two 60-second caches (get_mempool_data, get_bitcoin_price) and the  *)
(* price-threshold ladder (check_and_notify_price_threshold) as it is      *)
(* driven by the price-check task and by the /bitcoin command handler.     *)
(*                                                                         *)
(* Python's None is the empty sequence <<>> and a present value x is <<x>>.*)
(***************************************************************************)
EXTENDS Integers, Sequences, FiniteSets, TLC

VARIABLES
    \* ---- threshold ladder ----
    LAST_NOTIFIED_PRICE,  \* the global dict: price, thresholds (list), notified (list)
    persisted,            \* content of last_notified.json: <<>> (no file) or <<dict>>
    chat_ids,             \* <<GROUP_CHAT_ID, PERSONAL_CHAT_ID>>, "" when the variable is unset
    emitted,              \* history: threshold -> number of 'price crossed' events emitted
    delivered,            \* history: set of <<threshold, chat_id>> whose send succeeded
    everNotified,         \* history: every value that has been in notified
    lastCall,             \* history: the last ladder invocation: its price, events and sends,
                          \* whether a send raised; tick is 0 before the first invocation
                          \* and then alternates between 1 and 2
    taskPc,               \* check_bitcoin_price: "idle" (sleeping) or "retry" (inside the wrapper)
    taskRetries,          \* retries of the wrapper call at line 250
    taskPrice,            \* current_price of the running iteration
    taskChange,           \* change_24h of the running iteration (<<>>: none, or 'N/A')
    taskIter,             \* history: the task's running or last iteration: whether its
                          \* snapshot was due an alert (change above 5%, price other
                          \* than the recorded one), and the alert sends it made
    \* ---- backoff wrapper with an abstract op ----
    bo,
    \* ---- caches ----
    now,                  \* datetime.now(), in seconds
    MEMPOOL_CACHE,
    BITCOIN_CACHE,
    cacheCall,            \* history: the last cache call
    \* ---- calendar: next occurrence of a birthday ----
    calToday,             \* today, a date [year, month, day]
    calBirthday,          \* birthday_date, as parsed from DD-MM-YYYY
    calResult,            \* <<>> before the computation, then <<r>>: r.occurrence is
                          \* <<>> (ValueError) or <<this_year_birthday>>, r.days_left
    \* ---- get_postcard_send_date, loop step by loop step ----
    postcardPc,           \* "start", "back" (line 589), "scan" (line 564),
                          \* "transit" (line 593) or "done" (line 597)
    birthday_date,        \* the argument: the occurrence the card is for
    nl_holidays,          \* the dates the holiday calendar holds
    send_date,
    next_day,             \* get_next_business_day's local
    delivery_date,
    \* ---- the two background threads, as loops ----
    priceLoop,            \* check_bitcoin_price: pc "run" (in an iteration) or "sleep";
                          \* last: how the last iteration ended; slept: seconds of
                          \* the last sleep; recovered: history, an iteration has
                          \* begun after one that raised
    calendarLoop,         \* check_next_birthday: the same, and hour: now.hour
    \* ---- two threads inside the same function, statement by statement ----
    ladderThreads,        \* thread -> its position in check_and_notify_price_threshold
                          \* and its locals
    lastCompleted,        \* history: <<>> or <<price>> of the invocation that was
                          \* the last to return from line 239
    overlapped,           \* history: two threads have been inside at the same time
    cacheThreads,         \* thread -> its position in get_mempool_data and its locals
    fetchCount,           \* history: upstream fetches made so far; the n-th fetch
                          \* yields the price n if it succeeds
    fetchedWhileFresh,    \* history: an upstream fetch was made at a time when the
                          \* cache held a value less than 60 s old
    regressed,            \* history: a value was replaced by one fetched before it
    cacheOverlapped,      \* history: two threads have been inside at the same time
    \* ---- check_next_birthday, record by record ----
    birthdays,            \* the records on file, in iteration order
    calTask,              \* pc "record" (about to handle record i, or to finish the
                          \* iteration) or "sleep"; today, hour: now of the iteration;
                          \* day: days since the thread started; slept: seconds of
                          \* the last sleep; last: how the last iteration ended
    visited,              \* history: the records the running or last iteration reached
    remindersSent,        \* history: <<record, reminder>> -> times it was delivered:
                          \* 0, 1, or 2 for twice or more
    \* ---- get_bitcoin_price, statement by statement, on a running clock ----
    priceCall,            \* pc "idle" or the line the call is about to execute; its
                          \* locals; calls: calls made; elapsed: seconds the running
                          \* call has taken
    lastReturn            \* history: <<>> or <<r>>: the last snapshot returned: r.at
                          \* the clock reading (line 176) of the call that returned
                          \* it, r.obtained when its price was fetched from the
                          \* upstream

ladderVars == <<LAST_NOTIFIED_PRICE, persisted, chat_ids, emitted, delivered,
                everNotified, lastCall, taskPc, taskRetries, taskPrice,
                taskChange, taskIter>>
backoffVars == <<bo>>
cacheVars == <<now, MEMPOOL_CACHE, BITCOIN_CACHE, cacheCall>>
calendarVars == <<calToday, calBirthday, calResult>>
postcardVars == <<postcardPc, birthday_date, nl_holidays, send_date, next_day,
                  delivery_date>>
loopVars == <<priceLoop, calendarLoop>>
ladderRaceVars == <<ladderThreads, lastCompleted, overlapped>>
cacheRaceVars == <<cacheThreads, fetchCount, fetchedWhileFresh, regressed,
                   cacheOverlapped>>
reminderVars == <<birthdays, calTask, visited, remindersSent>>
stalenessVars == <<priceCall, lastReturn>>
vars == <<ladderVars, backoffVars, cacheVars, calendarVars, postcardVars, loopVars,
          ladderRaceVars, cacheRaceVars, reminderVars, stalenessVars>>

\* the variables an action of one part leaves alone
notLadderVars == <<backoffVars, cacheVars, calendarVars, postcardVars, loopVars,
    ladderRaceVars, cacheRaceVars, reminderVars, stalenessVars>>
notBackoffVars == <<ladderVars, cacheVars, calendarVars, postcardVars, loopVars,
    ladderRaceVars, cacheRaceVars, reminderVars, stalenessVars>>
notCacheVars == <<ladderVars, backoffVars, calendarVars, postcardVars, loopVars,
    ladderRaceVars, cacheRaceVars, reminderVars, stalenessVars>>
notCalendarVars == <<ladderVars, backoffVars, cacheVars, postcardVars, loopVars,
    ladderRaceVars, cacheRaceVars, reminderVars, stalenessVars>>
notPostcardVars == <<ladderVars, backoffVars, cacheVars, calendarVars, loopVars,
    ladderRaceVars, cacheRaceVars, reminderVars, stalenessVars>>
notLoopVars == <<ladderVars, backoffVars, cacheVars, calendarVars, postcardVars,
    ladderRaceVars, cacheRaceVars, reminderVars, stalenessVars>>

None == <<>>
Some(x) == <<x>>

(***************************************************************************)
(* Bounds of the model.                                                    *)
(***************************************************************************)
MaxPriceK == 1        \* prices above 31200: 31200 + 300 * k for k in 1..MaxPriceK
MaxRetriesArg == 3    \* max_retries arguments 0..MaxRetriesArg, and the default
MaxDelayArg == 2      \* initial_delay arguments 1..MaxDelayArg
MaxData == 2          \* upstream prices 1..MaxData
MaxTicks == 2         \* the clock stops at MaxTicks * (TTL + 1) seconds
MaxYears == 2         \* today is in one of MaxYears years from FirstYear on
MaxHolidays == 3      \* a holiday calendar holds at most MaxHolidays working days
MaxRecords == 2       \* records on file
MaxDays == 2          \* days the calendar thread runs
MaxSnapshots == 3     \* calls of get_bitcoin_price on the running clock
MaxCallSeconds == 1   \* seconds one call of get_bitcoin_price takes at most
MaxCalls == 1         \* invocations of a function by one thread, when two threads run it

(***************************************************************************)
(* Program constants.                                                      *)
(***************************************************************************)
DefaultMaxRetries == 5
DefaultInitialDelay == 1
TransientCode == 502
TTL == 60
MaxTransit == 4
FallbackSleep == 3600
WakeHour == 8

\* Prices fed to the ladder: those of the documented scenarios (29000, 30500,
\* 31200, 31500) and, with a larger bound, more of them.
Prices == {29000, 30500, 31200} \cup {31200 + 300 * k : k \in 1..MaxPriceK}

(***************************************************************************)
(* api_request_with_backoff, one pass of its loop.                         *)
(* An outcome of func() is a record [kind, val]:                           *)
(*   "ok"       func returned val                                          *)
(*   "api"      func raised ApiException with error_code val               *)
(*   "other"    func raised an exception of another class, numbered val    *)
(***************************************************************************)
\* A loop test that allows one pass more.
BackoffLoopGuardOffByOne(retries, max_retries) == retries <= max_retries

\* line 61: while retries < max_retries
BackoffLoopGuard(retries, max_retries) == retries < max_retries

RECURSIVE Pow2(_)
Pow2(n) == IF n <= 0 THEN 1 ELSE 2 * Pow2(n - 1)

\* A delay that grows linearly.
BackoffDelayLinear(initial_delay, retries) == initial_delay * (retries + 1)

\* line 66
BackoffDelay(initial_delay, retries) == initial_delay * Pow2(retries)

\* A classification that retries after every ApiException.
BackoffClassifyAnyCode(outcome) ==
    IF outcome.kind = "ok" THEN "return"
    ELSE IF outcome.kind = "api" THEN "retry"
    ELSE "raise"

\* lines 62-70: what one pass does with func's outcome.
\* "return": line 63 returns; "retry": lines 66-68; "raise": line 70 or an
\* exception the except clause does not catch.
BackoffClassify(outcome) ==
    IF outcome.kind = "ok" THEN "return"
    ELSE IF outcome.kind = "api" /\ outcome.val = TransientCode THEN "retry"
    ELSE "raise"

\* line 71: Exception("Max retries reached")
MaxRetriesReached == [kind |-> "other", val |-> 71]

RECURSIVE ApiRequestWithBackoff(_, _)
\* lines 59-71 with the default arguments, around a func whose every
\* invocation has `outcome`: the outcome of the call and func's invocations
ApiRequestWithBackoff(outcome, retries) ==
    IF BackoffLoopGuard(retries, DefaultMaxRetries)
    THEN IF BackoffClassify(outcome) = "retry"
         THEN LET r == ApiRequestWithBackoff(outcome, retries + 1)
              IN [r EXCEPT !.invocations = @ + 1,
                           !.slept = @ + BackoffDelay(DefaultInitialDelay, retries)]
         ELSE [result |-> outcome, invocations |-> 1, slept |-> 0]
    ELSE [result |-> MaxRetriesReached, invocations |-> 0, slept |-> 0]

(***************************************************************************)
(* Threshold ladder.                                                       *)
(***************************************************************************)
Contains(seq, x) == \E i \in 1..Len(seq) : seq[i] = x
SeqSet(seq) == {seq[i] : i \in 1..Len(seq)}

InsertSorted(s, x) ==
    LET k == Cardinality({i \in 1..Len(s) : s[i] <= x})
    IN SubSeq(s, 1, k) \o <<x>> \o SubSeq(s, k + 1, Len(s))

RECURSIVE ListSort(_)
\* list.sort()
ListSort(s) == IF Len(s) <= 1 THEN s ELSE InsertSorted(ListSort(Tail(s)), Head(s))

\* A rounding up to the next multiple of 1000 that leaves a multiple where it is.
NextThresholdCeil(price) == ((price + 999) \div 1000) * 1000

\* line 221: (current_price // 1000 + 1) * 1000
NextThreshold(price) == ((price \div 1000) + 1) * 1000

\* An insertion that appends and does not sort.
InsertThresholdNoSort(thresholds, next_threshold) ==
    IF ~Contains(thresholds, next_threshold)
    THEN Append(thresholds, next_threshold)
    ELSE thresholds

\* lines 223-225
InsertThreshold(thresholds, next_threshold) ==
    IF ~Contains(thresholds, next_threshold)
    THEN ListSort(Append(thresholds, next_threshold))
    ELSE thresholds

RECURSIVE SendToChats(_, _, _, _, _)
\* lines 231-236: the sends of one event, in the order group, personal.
\* budget: how many more sends succeed before bot.send_message raises
\* (-1: none raises).  Result: the sends made, as <<threshold, chat, ok>>.
SendToChats(chats, i, threshold, budget, acc) ==
    IF i > Len(chats) THEN [sends |-> acc, budget |-> budget, raised |-> FALSE]
    ELSE IF chats[i] # ""
         THEN IF budget = 0
              THEN [sends |-> Append(acc, <<threshold, chats[i], FALSE>>),
                    budget |-> 0, raised |-> TRUE]
              ELSE SendToChats(chats, i + 1, threshold,
                               IF budget > 0 THEN budget - 1 ELSE budget,
                               Append(acc, <<threshold, chats[i], TRUE>>))
         ELSE SendToChats(chats, i + 1, threshold, budget, acc)

\* A crossing test that does not look at notified.
CrossedNoDedup(price, threshold, notified) == price >= threshold

\* line 228
Crossed(price, threshold, notified) ==
    price >= threshold /\ ~Contains(notified, threshold)

RECURSIVE ThresholdLoop(_, _, _, _, _, _)
\* lines 227-236: st = [notified, events, sends, raised]
ThresholdLoop(thresholds, i, price, chats, budget, st) ==
    IF i > Len(thresholds) THEN st
    ELSE IF Crossed(price, thresholds[i], st.notified)
         THEN LET r == SendToChats(chats, 1, thresholds[i], budget, <<>>)
                  st2 == [notified |-> Append(st.notified, thresholds[i]),
                          events |-> Append(st.events, thresholds[i]),
                          sends |-> st.sends \o r.sends,
                          raised |-> r.raised]
              IN IF r.raised THEN st2
                 ELSE ThresholdLoop(thresholds, i + 1, price, chats, r.budget, st2)
         ELSE ThresholdLoop(thresholds, i + 1, price, chats, budget, st)

\* line 238
SetPrice(ladder, price) == [ladder EXCEPT !.price = price]

\* lines 106-109: what json.dump leaves in last_notified.json
save_last_notified_price(last_notified_price) == Some(last_notified_price)

\* lines 217-239: one invocation on the dict `ladder`.
\* Result: the dict afterwards, what was written to last_notified.json
\* (<<>>: nothing), the events and sends, and whether a send raised.
check_and_notify_price_threshold(ladder, price, chats, budget) ==
    LET ths == InsertThreshold(ladder.thresholds, NextThreshold(price))
        loop == ThresholdLoop(ths, 1, price, chats, budget,
                              [notified |-> ladder.notified, events |-> <<>>,
                               sends |-> <<>>, raised |-> FALSE])
        mid == [price |-> ladder.price, thresholds |-> ths, notified |-> loop.notified]
    IN IF loop.raised
       THEN [ladder |-> mid, saved |-> None, events |-> loop.events,
             sends |-> loop.sends, raised |-> TRUE]
       ELSE [ladder |-> SetPrice(mid, price),
             saved |-> save_last_notified_price(SetPrice(mid, price)),
             events |-> loop.events, sends |-> loop.sends, raised |-> FALSE]

(***************************************************************************)
(* The ladder as the program runs it: directly from the /bitcoin handler   *)
(* (line 416) and through api_request_with_backoff from the price-check    *)
(* task (line 250).  Each action is one whole invocation of                *)
(* check_and_notify_price_threshold.                                       *)
(***************************************************************************)
AllThresholds == {NextThreshold(p) : p \in Prices}
MaxSends == 2 * Cardinality(AllThresholds)

\* the ladder returns None
OkOutcome == [kind |-> "ok", val |-> 0]
\* what bot.send_message can raise: ApiException with error_code 502 or with
\* another code (400), or an exception of another class
SendErrors == {[kind |-> "api", val |-> TransientCode],
               [kind |-> "api", val |-> 400],
               [kind |-> "other", val |-> 0]}

\* line 104: the default when last_notified.json does not exist
DefaultLadder == [price |-> 0, thresholds |-> <<>>, notified |-> <<>>]

Count(seq, x) == Cardinality({i \in 1..Len(seq) : seq[i] = x})

\* The effect of one invocation r (a result of check_and_notify_price_threshold)
\* on the ladder's state and on the history.
RunLadder(r, price) ==
    /\ LAST_NOTIFIED_PRICE' = r.ladder
    /\ persisted' = IF r.saved = None THEN persisted ELSE r.saved
    /\ emitted' = [t \in DOMAIN emitted |-> emitted[t] + Count(r.events, t)]
    /\ delivered' = delivered \cup
                     {<<r.sends[i][1], r.sends[i][2]>> :
                         i \in {j \in 1..Len(r.sends) : r.sends[j][3]}}
    /\ everNotified' = everNotified \cup SeqSet(r.ladder.notified)
    /\ lastCall' = [tick |-> IF lastCall.tick = 1 THEN 2 ELSE 1, price |-> price,
                    events |-> r.events, sends |-> r.sends, raised |-> r.raised]

InitLadder ==
    /\ LAST_NOTIFIED_PRICE = DefaultLadder
    /\ persisted = None
    /\ chat_ids \in {<<g, p>> : g \in {"", "group"}, p \in {"", "personal"}}
    /\ emitted = [t \in AllThresholds |-> 0]
    /\ delivered = {}
    /\ everNotified = {}
    /\ lastCall = [tick |-> 0, price |-> 0, events |-> <<>>, sends |-> <<>>,
                   raised |-> FALSE]
    /\ taskPc = "idle"
    /\ taskRetries = 0
    /\ taskPrice = 0
    /\ taskChange = None
    /\ taskIter = [due |-> FALSE, alerts |-> <<>>]

\* lines 414-416: send_bitcoin_price has a snapshot with a 24h change and
\* calls the ladder with the snapshot's price
SendBitcoinPrice ==
    \E price \in Prices, budget \in -1..MaxSends :
        LET r == check_and_notify_price_threshold(LAST_NOTIFIED_PRICE, price,
                                                  chat_ids, budget)
        IN /\ budget >= 0 => r.raised
           /\ \E outcome \in (IF r.raised THEN SendErrors ELSE {OkOutcome}) :
                 RunLadder(r, price)
           /\ UNCHANGED <<chat_ids, taskPc, taskRetries, taskPrice, taskChange,
                          taskIter>>

Abs(x) == IF x < 0 THEN -x ELSE x

\* the 24h changes of a snapshot: 'N/A' (<<>>), or a percentage
Changes == {None, Some(3), Some(6), Some(-6)}

\* line 252: change_24h is a number here
VolatilityCondition(price, change_24h, last_price) ==
    Abs(change_24h) > 5 /\ price # last_price

RECURSIVE AlertSends(_, _, _, _)
\* lines 254-257: each send goes through api_request_with_backoff and has
\* `outcome` whenever it is tried; the first one that raises ends the loop
AlertSends(chats, i, outcome, acc) ==
    IF i > Len(chats) THEN [alerts |-> acc, raised |-> FALSE]
    ELSE IF chats[i] # ""
         THEN IF ApiRequestWithBackoff(outcome, 0).result.kind = "ok"
              THEN AlertSends(chats, i + 1, outcome, Append(acc, chats[i]))
              ELSE [alerts |-> acc, raised |-> TRUE]
         ELSE AlertSends(chats, i + 1, outcome, acc)

\* lines 252-257, run after the ladder has returned and left `last_price` in
\* LAST_NOTIFIED_PRICE['price'].  abs('N/A') raises TypeError.
VolatilityAlert(price, change_24h, last_price, chats, outcome) ==
    IF change_24h = None THEN [alerts |-> <<>>, raised |-> TRUE]
    ELSE IF VolatilityCondition(price, change_24h[1], last_price)
         THEN AlertSends(chats, 1, outcome, <<>>)
         ELSE [alerts |-> <<>>, raised |-> FALSE]

\* what a send of the alert can do, when line 252 lets one be made
AlertOutcomes(price, change_24h, last_price) ==
    IF change_24h # None /\ VolatilityCondition(price, change_24h[1], last_price)
    THEN {OkOutcome} \cup SendErrors
    ELSE {OkOutcome}

TaskIdle ==
    /\ taskPc' = "idle"
    /\ taskRetries' = 0
    /\ taskPrice' = 0
    /\ taskChange' = None

\* lines 250-262: one pass of api_request_with_backoff around the ladder, with
\* `retries` passes already failed, and, when the ladder has returned, the
\* volatility alert.  An error raised on the way is caught at line 259; the
\* task then sleeps (line 262).  `due` is the iteration's history.
TaskPass(price, change_24h, retries, due) ==
    IF BackoffLoopGuard(retries, DefaultMaxRetries)
    THEN \E budget \in -1..MaxSends :
           LET r == check_and_notify_price_threshold(LAST_NOTIFIED_PRICE, price,
                                                     chat_ids, budget)
           IN /\ budget >= 0 => r.raised
              /\ \E outcome \in (IF r.raised THEN SendErrors ELSE {OkOutcome}) :
                    /\ RunLadder(r, price)
                    /\ IF BackoffClassify(outcome) = "retry"
                       THEN /\ taskPc' = "retry"
                            /\ taskRetries' = retries + 1
                            /\ taskPrice' = price
                            /\ taskChange' = change_24h
                            /\ taskIter' = [due |-> due, alerts |-> <<>>]
                       ELSE IF BackoffClassify(outcome) = "return"
                       THEN \E ao \in AlertOutcomes(price, change_24h, r.ladder.price) :
                              /\ TaskIdle
                              /\ taskIter' =
                                    [due |-> due,
                                     alerts |-> VolatilityAlert(price, change_24h,
                                                   r.ladder.price, chat_ids, ao).alerts]
                       ELSE /\ TaskIdle
                            /\ taskIter' = [due |-> due, alerts |-> <<>>]
              /\ UNCHANGED chat_ids
    ELSE \* line 71
         /\ TaskIdle
         /\ taskIter' = [due |-> due, alerts |-> <<>>]
         /\ UNCHANGED <<LAST_NOTIFIED_PRICE, persisted, chat_ids, emitted,
                        delivered, everNotified, lastCall>>

\* lines 245-257: an iteration of check_bitcoin_price that got a snapshot
CheckBitcoinPrice ==
    /\ taskPc = "idle"
    /\ \E price \in Prices, change_24h \in Changes :
          TaskPass(price, change_24h, 0,
                   /\ change_24h # None
                   /\ VolatilityCondition(price, change_24h[1],
                                          LAST_NOTIFIED_PRICE.price))

\* lines 61-68 at line 250: the wrapper's next pass after a 502
CheckBitcoinPriceRetry ==
    /\ taskPc = "retry"
    /\ TaskPass(taskPrice, taskChange, taskRetries, taskIter.due)

NextLadder ==
    \/ SendBitcoinPrice /\ UNCHANGED notLadderVars
    \/ CheckBitcoinPrice /\ UNCHANGED notLadderVars
    \/ CheckBitcoinPriceRetry /\ UNCHANGED notLadderVars

(***************************************************************************)
(* api_request_with_backoff(func, max_retries, initial_delay) around an    *)
(* abstract func whose every invocation returns a value, raises            *)
(* ApiException with some error_code, or raises another exception.         *)
(*   bo.status   "idle", "running", "returned" or "raised"                 *)
(*   bo.result   <<>> or <<outcome>>: what the call returned or raised     *)
(*   bo.sleeps   the arguments of time.sleep, in order                     *)
(*   bo.calls    history: the outcomes of the invocations of func, in order*)
(***************************************************************************)
OpValues == {1, 2}
\* what fetch_data and fetch_coingecko raise: requests' HTTPError from
\* raise_for_status for a 502 reply (lines 128, 132, 159, 203), or something
\* else (ConnectionError, KeyError, ValueError)
FetchErrors == {[kind |-> "other", val |-> 502], [kind |-> "other", val |-> 0]}
OpOutcomes == {[kind |-> "ok", val |-> v] : v \in OpValues} \cup
              {[kind |-> "api", val |-> TransientCode],
               [kind |-> "api", val |-> 400]} \cup FetchErrors
MaxRetriesArgs == (0..MaxRetriesArg) \cup {DefaultMaxRetries}
InitialDelayArgs == (1..MaxDelayArg) \cup {DefaultInitialDelay}

BackoffIdle ==
    [status |-> "idle", max_retries |-> 0, initial_delay |-> 0, retries |-> 0,
     result |-> None, sleeps |-> <<>>, calls |-> <<>>]

InitBackoffIdle == bo = BackoffIdle

\* lines 59-60: a call begins
BackoffCall ==
    /\ bo.status # "running"
    /\ \E mr \in MaxRetriesArgs, d \in InitialDelayArgs :
          bo' = [BackoffIdle EXCEPT !.status = "running", !.max_retries = mr,
                                    !.initial_delay = d]

\* lines 61-70: a pass of the loop in which func() has `outcome`
BackoffPass(outcome) ==
    /\ bo.status = "running"
    /\ BackoffLoopGuard(bo.retries, bo.max_retries)
    /\ LET c == BackoffClassify(outcome)
           called == [bo EXCEPT !.calls = Append(@, outcome)]
       IN bo' = IF c = "retry"
                THEN [called EXCEPT
                        !.sleeps = Append(@, BackoffDelay(bo.initial_delay, bo.retries)),
                        !.retries = @ + 1]
                ELSE [called EXCEPT
                        !.status = IF c = "return" THEN "returned" ELSE "raised",
                        !.result = Some(outcome)]

\* func returns: line 63
BackoffFuncReturns == \E o \in {x \in OpOutcomes : x.kind = "ok"} : BackoffPass(o)
\* func raises ApiException: lines 64-70
BackoffFuncRaisesApi == \E o \in {x \in OpOutcomes : x.kind = "api"} : BackoffPass(o)
\* func raises another exception, which line 64 does not catch
BackoffFuncRaisesOther == \E o \in {x \in OpOutcomes : x.kind = "other"} : BackoffPass(o)

\* line 71: the loop ended without a return
BackoffExhausted ==
    /\ bo.status = "running"
    /\ ~BackoffLoopGuard(bo.retries, bo.max_retries)
    /\ bo' = [bo EXCEPT !.status = "raised", !.result = Some(MaxRetriesReached)]

NextBackoff ==
    \/ BackoffCall /\ UNCHANGED notBackoffVars
    \/ BackoffFuncReturns /\ UNCHANGED notBackoffVars
    \/ BackoffFuncRaisesApi /\ UNCHANGED notBackoffVars
    \/ BackoffFuncRaisesOther /\ UNCHANGED notBackoffVars
    \/ BackoffExhausted /\ UNCHANGED notBackoffVars


(***************************************************************************)
(* The caches.  A fetch outcome is an outcome record as above; the         *)
(* fetchers use requests, whose errors (HTTPError from raise_for_status,   *)
(* ConnectionError, a KeyError or ValueError on the reply) are no          *)
(* ApiException: kind "other", val the HTTP status or 0.                   *)
(***************************************************************************)
\* the invocations of fetcher `name` by a wrapper call r, as <<name, succeeded>>
FetchTrace(name, r) ==
    [n \in 1..r.invocations |-> <<name, r.result.kind = "ok" /\ n = r.invocations>>]

EmptyCache == [data |-> None, last_updated |-> None]

\* A freshness test that still serves the cached value at exactly 60 seconds.
FreshInclusive(cache, current_time) ==
    /\ cache.last_updated # None
    /\ current_time - cache.last_updated[1] <= TTL

\* lines 121 and 178
Fresh(cache, current_time) ==
    /\ cache.last_updated # None
    /\ current_time - cache.last_updated[1] < TTL

\* A failure branch that falls back to the cached value.
FetchFailedStale(cache) == cache.data

\* lines 146-148 and 213-215: what the call returns when the fetch raised
FetchFailed(cache) == None

\* An except clause that catches ApiException only.
CaughtApiOnly(outcome) == outcome.kind = "api"

\* lines 146, 169 and 213: `except Exception` catches whatever was raised
Caught(outcome) == outcome.kind \in {"api", "other"}

\* lines 116-148.  outcome: what fetch_data does if it is invoked; its value
\* is the price.  Result: the cache afterwards, the value returned, the
\* upstream fetches made, and whether the call raised.
get_mempool_data(cache, current_time, outcome) ==
    IF Fresh(cache, current_time)
    THEN [cache |-> cache, ret |-> cache.data, fetches |-> <<>>, raised |-> FALSE]
    ELSE LET r == ApiRequestWithBackoff(outcome, 0)
             data == [price_eur |-> r.result.val]
         IN IF r.result.kind = "ok"
            THEN [cache |-> [data |-> Some(data), last_updated |-> Some(current_time)],
                  ret |-> Some(data), fetches |-> FetchTrace("mempool", r),
                  raised |-> FALSE]
            ELSE [cache |-> cache, ret |-> FetchFailed(cache),
                  fetches |-> FetchTrace("mempool", r),
                  raised |-> ~Caught(r.result)]

\* lines 150-171: the 24h change, or None
get_coingecko_price_change(outcome) ==
    LET r == ApiRequestWithBackoff(outcome, 0)
    IN [ret |-> IF r.result.kind = "ok" THEN Some(r.result.val) ELSE None,
        fetches |-> FetchTrace("change", r),
        raised |-> r.result.kind # "ok" /\ ~Caught(r.result)]

\* lines 173-215.  om, oc, of: what the mempool fetch, the 24h-change fetch
\* and the fallback fetch_coingecko do if they are invoked.  A snapshot is
\* [eur, eur_24h_change], the change <<>> standing for 'N/A'.  An exception
\* out of line 185, 186 or 207 goes to line 213.
get_bitcoin_price(bitcoin_cache, mempool_cache, current_time, om, oc, of) ==
    IF Fresh(bitcoin_cache, current_time)
    THEN [bitcoin |-> bitcoin_cache, mempool |-> mempool_cache,
          ret |-> bitcoin_cache.data, fetches |-> <<>>, raised |-> FALSE]
    ELSE LET m == get_mempool_data(mempool_cache, current_time, om)
             c == get_coingecko_price_change(oc)
         IN IF m.raised
            THEN [bitcoin |-> bitcoin_cache, mempool |-> m.cache,
                  ret |-> FetchFailed(bitcoin_cache), fetches |-> m.fetches,
                  raised |-> ~Caught(om)]
            ELSE IF c.raised
            THEN [bitcoin |-> bitcoin_cache, mempool |-> m.cache,
                  ret |-> FetchFailed(bitcoin_cache),
                  fetches |-> m.fetches \o c.fetches, raised |-> ~Caught(oc)]
            ELSE IF m.ret # None
            THEN LET data == [eur |-> m.ret[1].price_eur, eur_24h_change |-> c.ret]
                 IN [bitcoin |-> [data |-> Some(data),
                                  last_updated |-> Some(current_time)],
                     mempool |-> m.cache, ret |-> Some(data),
                     fetches |-> m.fetches \o c.fetches, raised |-> FALSE]
            ELSE LET f == ApiRequestWithBackoff(of, 0)
                     data == [eur |-> f.result.val, eur_24h_change |-> Some(0)]
                 IN IF f.result.kind = "ok"
                    THEN [bitcoin |-> [data |-> Some(data),
                                       last_updated |-> Some(current_time)],
                          mempool |-> m.cache, ret |-> Some(data),
                          fetches |-> m.fetches \o c.fetches \o FetchTrace("fallback", f),
                          raised |-> FALSE]
                    ELSE [bitcoin |-> bitcoin_cache, mempool |-> m.cache,
                          ret |-> FetchFailed(bitcoin_cache),
                          fetches |-> m.fetches \o c.fetches \o FetchTrace("fallback", f),
                          raised |-> ~Caught(f.result)]

\* what a fetcher built on requests can do: return a value or raise one of
\* FetchErrors
PriceOutcomes == {[kind |-> "ok", val |-> v] : v \in 1..MaxData} \cup FetchErrors
ChangeOutcomes == {[kind |-> "ok", val |-> 6]} \cup FetchErrors
TickSteps == {TTL - 1, TTL, TTL + 1}

\* cacheCall: the last call of a cache function: which, what it returned,
\* the upstream fetches it made; tick as in lastCall
InitCacheIdle ==
    /\ now = 0
    /\ MEMPOOL_CACHE = EmptyCache
    /\ BITCOIN_CACHE = EmptyCache
    /\ cacheCall = [tick |-> 0, fn |-> "none", ret |-> None, fetches |-> <<>>,
                    raised |-> FALSE]

NextTick == IF cacheCall.tick = 1 THEN 2 ELSE 1

\* time passes between calls
Tick ==
    /\ \E d \in TickSteps :
          /\ now + d <= MaxTicks * (TTL + 1)
          /\ now' = now + d
    /\ UNCHANGED <<MEMPOOL_CACHE, BITCOIN_CACHE, cacheCall>>

\* a call of get_mempool_data by itself (the program calls it at line 185)
GetMempoolData ==
    /\ \E om \in PriceOutcomes :
          LET r == get_mempool_data(MEMPOOL_CACHE, now, om)
          IN /\ MEMPOOL_CACHE' = r.cache
             /\ cacheCall' = [tick |-> NextTick, fn |-> "mempool", ret |-> r.ret,
                              fetches |-> r.fetches, raised |-> r.raised]
    /\ UNCHANGED <<now, BITCOIN_CACHE>>

\* a call of get_coingecko_price_change by itself (the program calls it at
\* line 186)
GetCoingeckoPriceChange ==
    /\ \E oc \in ChangeOutcomes :
          LET r == get_coingecko_price_change(oc)
          IN cacheCall' = [tick |-> NextTick, fn |-> "change", ret |-> r.ret,
                           fetches |-> r.fetches, raised |-> r.raised]
    /\ UNCHANGED <<now, MEMPOOL_CACHE, BITCOIN_CACHE>>

\* what fetch_coingecko can do in a call whose mempool fetch does om: line
\* 196 leaves it uncalled when the mempool fetch succeeds, and then one
\* outcome stands for all
FallbackOutcomes(om) ==
    IF om.kind = "ok" THEN {[kind |-> "ok", val |-> 1]} ELSE PriceOutcomes

\* a call of get_bitcoin_price (lines 245 and 384)
GetBitcoinPrice ==
    /\ \E om \in PriceOutcomes, oc \in ChangeOutcomes :
       \E of \in FallbackOutcomes(om) :
          LET r == get_bitcoin_price(BITCOIN_CACHE, MEMPOOL_CACHE, now, om, oc, of)
          IN /\ BITCOIN_CACHE' = r.bitcoin
             /\ MEMPOOL_CACHE' = r.mempool
             /\ cacheCall' = [tick |-> NextTick, fn |-> "bitcoin", ret |-> r.ret,
                              fetches |-> r.fetches, raised |-> r.raised]
    /\ UNCHANGED now

NextCache ==
    \/ Tick /\ UNCHANGED notCacheVars
    \/ GetMempoolData /\ UNCHANGED notCacheVars
    \/ GetCoingeckoPriceChange /\ UNCHANGED notCacheVars
    \/ GetBitcoinPrice /\ UNCHANGED notCacheVars

(***************************************************************************)
(* Dates.  A datetime.date is [year, month, day]; date arithmetic goes     *)
(* through the proleptic ordinal as in Python (date.toordinal()).          *)
(***************************************************************************)
Date(y, m, d) == [year |-> y, month |-> m, day |-> d]
IsLeap(y) == (y % 4 = 0 /\ y % 100 # 0) \/ y % 400 = 0
DaysInMonth(y, m) ==
    IF m = 2 THEN (IF IsLeap(y) THEN 29 ELSE 28)
    ELSE IF m \in {4, 6, 9, 11} THEN 30 ELSE 31
ValidDate(y, m, d) == m \in 1..12 /\ d \in 1..DaysInMonth(y, m)
DatesOfYear(y) == {x \in [year : {y}, month : 1..12, day : 1..31] :
                       ValidDate(x.year, x.month, x.day)}

RECURSIVE DaysBeforeMonth(_, _)
DaysBeforeMonth(y, m) ==
    IF m <= 1 THEN 0 ELSE DaysBeforeMonth(y, m - 1) + DaysInMonth(y, m - 1)
DaysBeforeYear(y) ==
    LET p == y - 1 IN 365 * p + (p \div 4) - (p \div 100) + (p \div 400)
\* date.toordinal(): 1 is 0001-01-01, a Monday
ToOrdinal(date) ==
    DaysBeforeYear(date.year) + DaysBeforeMonth(date.year, date.month) + date.day
\* date.weekday(): Monday is 0, Sunday is 6
Weekday(date) == (ToOrdinal(date) + 6) % 7
\* (a - b).days
DaysBetween(a, b) == ToOrdinal(a) - ToOrdinal(b)
\* a < b on dates: year, month, day compared in that order
DateLess(a, b) ==
    \/ a.year < b.year
    \/ a.year = b.year /\ a.month < b.month
    \/ a.year = b.year /\ a.month = b.month /\ a.day < b.day
\* date + timedelta(days=1)
NextDay(date) ==
    IF date.day < DaysInMonth(date.year, date.month)
    THEN Date(date.year, date.month, date.day + 1)
    ELSE IF date.month < 12 THEN Date(date.year, date.month + 1, 1)
    ELSE Date(date.year + 1, 1, 1)
\* date - timedelta(days=1)
PrevDay(date) ==
    IF date.day > 1 THEN Date(date.year, date.month, date.day - 1)
    ELSE IF date.month > 1
         THEN Date(date.year, date.month - 1, DaysInMonth(date.year, date.month - 1))
    ELSE Date(date.year - 1, 12, 31)
\* date.replace(year=y): <<>> stands for the ValueError of a day that the
\* year does not have (29 February)
ReplaceYear(date, y) ==
    IF ValidDate(y, date.month, date.day) THEN Some(Date(y, date.month, date.day))
    ELSE None

(***************************************************************************)
(* Next occurrence of a birthday: get_next_birthday (lines 497-503) and    *)
(* check_next_birthday (lines 618-624) compute it the same way.            *)
(***************************************************************************)
\* A test that also moves a birthday that is today to next year.
OccurrenceIsPastInclusive(this_year_birthday, today) ==
    ~DateLess(today, this_year_birthday)

\* lines 499 and 620: this_year_birthday < today
OccurrenceIsPast(this_year_birthday, today) == DateLess(this_year_birthday, today)

\* lines 497-500 and 618-621: <<>> when replace() raises ValueError
this_year_birthday(birthday, today) ==
    LET c == ReplaceYear(birthday, today.year)
    IN IF c = None THEN None
       ELSE IF OccurrenceIsPast(c[1], today)
            THEN ReplaceYear(c[1], today.year + 1)
            ELSE c

\* lines 502 and 624: (this_year_birthday - today).days
days_left(occurrence, today) == DaysBetween(occurrence, today)

\* today's year is one of FirstYear, FirstYear + 1, ... (2024 is a leap year)
FirstYear == 2023
\* the days of `today`: the 1st, the 10th and the last day of each month
Todays ==
    UNION {{x \in DatesOfYear(FirstYear + k) :
               x.day \in {1, 10, DaysInMonth(x.year, x.month)}} : k \in 0..(MaxYears - 1)}
\* the birthdays on file: every day of a year, and 29 February
Birthdays == DatesOfYear(1990) \cup {Date(1992, 2, 29)}

InitCalendarIdle ==
    /\ calToday = Date(FirstYear, 1, 1)
    /\ calBirthday = Date(1990, 1, 1)
    /\ calResult = None

InitCalendar ==
    /\ calToday \in Todays
    /\ calBirthday \in Birthdays
    /\ calResult = None

\* lines 497-502 and 618-624 for one record
GetNextBirthday ==
    /\ calResult = None
    /\ LET occ == this_year_birthday(calBirthday, calToday)
       IN calResult' = Some([occurrence |-> occ,
                             days_left |-> IF occ = None THEN 0
                                           ELSE days_left(occ[1], calToday)])
    /\ UNCHANGED <<calToday, calBirthday>>

NextCalendar == GetNextBirthday /\ UNCHANGED notCalendarVars

(***************************************************************************)
(* get_postcard_send_date (lines 568-597) and get_next_business_day        *)
(* (lines 561-566), one action per loop test.  `date in nl_holidays` is    *)
(* membership in a set of dates.                                           *)
(***************************************************************************)
\* lines 576-584: delivery_schedule
delivery_schedule(weekday) ==
    IF weekday <= 4 THEN 1 ELSE IF weekday = 5 THEN 3 ELSE 2

\* lines 564 and 589: weekday() >= 5 or the date is a holiday
NotBusinessDay(date, holidays) == Weekday(date) >= 5 \/ date \in holidays

RECURSIVE MinusDays(_, _)
\* date - timedelta(days=n)
MinusDays(date, n) == IF n <= 0 THEN date ELSE MinusDays(PrevDay(date), n - 1)

RECURSIVE DatesFrom(_, _)
\* the n dates from `date` on
DatesFrom(date, n) == IF n <= 0 THEN {} ELSE {date} \cup DatesFrom(NextDay(date), n - 1)

\* A bound on the transit that is one day too wide.
TransitTooLongByFive(delivery, send) == DaysBetween(delivery, send) > MaxTransit + 1

\* line 593: (delivery_date - send_date).days > 4
TransitTooLong(delivery, send) == DaysBetween(delivery, send) > MaxTransit

\* A retreat that leaves send_date where it is.
RetreatNowhere(send) == send

\* line 594: send_date -= timedelta(days=1)
Retreat(send) == PrevDay(send)

\* the occurrences: a week, Monday 2024-12-30 to Sunday 2025-01-05
OccurrenceWeek == DatesFrom(Date(2024, 12, 30), 7)
\* the days a calendar can hold: the working days (a holiday on a Saturday
\* or Sunday changes nothing) from 2024-12-23 to 2025-01-08
HolidayCandidates == {d \in DatesFrom(Date(2024, 12, 23), 17) : Weekday(d) < 5}
HolidayCalendars == {H \in SUBSET HolidayCandidates : Cardinality(H) <= MaxHolidays}

InitPostcardIdle ==
    /\ postcardPc = "done"
    /\ birthday_date = Date(2024, 12, 30)
    /\ nl_holidays = {}
    /\ send_date = None
    /\ next_day = None
    /\ delivery_date = None

InitPostcard ==
    /\ postcardPc = "start"
    /\ birthday_date \in OccurrenceWeek
    /\ nl_holidays \in HolidayCalendars
    /\ send_date = None
    /\ next_day = None
    /\ delivery_date = None

\* lines 586-587
PostcardStart ==
    /\ postcardPc = "start"
    /\ send_date' = Some(MinusDays(birthday_date,
                                   delivery_schedule(Weekday(birthday_date))))
    /\ postcardPc' = "back"
    /\ UNCHANGED <<birthday_date, nl_holidays, next_day, delivery_date>>

\* lines 589-590: the loop test holds
BackwardStep ==
    /\ postcardPc = "back"
    /\ NotBusinessDay(send_date[1], nl_holidays)
    /\ send_date' = Some(PrevDay(send_date[1]))
    /\ UNCHANGED <<postcardPc, birthday_date, nl_holidays, next_day, delivery_date>>

\* line 589 fails; lines 592 and 563: get_next_business_day is entered
BackwardDone ==
    /\ postcardPc = "back"
    /\ ~NotBusinessDay(send_date[1], nl_holidays)
    /\ next_day' = Some(NextDay(send_date[1]))
    /\ postcardPc' = "scan"
    /\ UNCHANGED <<birthday_date, nl_holidays, send_date, delivery_date>>

\* lines 564-565: the loop test holds
ScanStep ==
    /\ postcardPc = "scan"
    /\ NotBusinessDay(next_day[1], nl_holidays)
    /\ next_day' = Some(NextDay(next_day[1]))
    /\ UNCHANGED <<postcardPc, birthday_date, nl_holidays, send_date, delivery_date>>

\* line 564 fails; line 566 returns to line 592 or 595
ScanDone ==
    /\ postcardPc = "scan"
    /\ ~NotBusinessDay(next_day[1], nl_holidays)
    /\ delivery_date' = next_day
    /\ postcardPc' = "transit"
    /\ UNCHANGED <<birthday_date, nl_holidays, send_date, next_day>>

\* lines 593-595 and 563: the loop test holds
TransitStep ==
    /\ postcardPc = "transit"
    /\ TransitTooLong(delivery_date[1], send_date[1])
    /\ send_date' = Some(Retreat(send_date[1]))
    /\ next_day' = Some(NextDay(Retreat(send_date[1])))
    /\ postcardPc' = "scan"
    /\ UNCHANGED <<birthday_date, nl_holidays, delivery_date>>

\* line 593 fails; line 597
PostcardReturn ==
    /\ postcardPc = "transit"
    /\ ~TransitTooLong(delivery_date[1], send_date[1])
    /\ postcardPc' = "done"
    /\ UNCHANGED <<birthday_date, nl_holidays, send_date, next_day, delivery_date>>

NextPostcard ==
    \/ PostcardStart /\ UNCHANGED notPostcardVars
    \/ BackwardStep /\ UNCHANGED notPostcardVars
    \/ BackwardDone /\ UNCHANGED notPostcardVars
    \/ ScanStep /\ UNCHANGED notPostcardVars
    \/ ScanDone /\ UNCHANGED notPostcardVars
    \/ TransitStep /\ UNCHANGED notPostcardVars
    \/ PostcardReturn /\ UNCHANGED notPostcardVars

(***************************************************************************)
(* The two background threads (lines 746-747): the loops of                *)
(* check_bitcoin_price (lines 241-262) and check_next_birthday (lines      *)
(* 599-645).  An iteration ends normally or with an exception raised in    *)
(* its try block.                                                          *)
(***************************************************************************)
\* how an iteration of check_bitcoin_price can end: normally, or with the
\* KeyError of line 248 (a fallback snapshot without 'eur_24h_change'), an
\* error out of the wrapper at line 250, the TypeError of line 252
\* (abs('N/A')), an error out of the wrapper at line 257
PriceIterationEnds == {"ok", "KeyError", "ladder", "TypeError", "alert"}
\* how an iteration of check_next_birthday can end: normally, or with the
\* ValueError of replace() at lines 618-621, or an error of bot.send_message
\* in send_notification
CalendarIterationEnds == {"ok", "ValueError", "send"}

\* An except clause that does not catch: the thread ends with the exception.
ThreadEndsOnError(end) == "dead"

\* lines 259-262 and 643-645: `except Exception` catches what the iteration
\* raised, and the thread goes on to time.sleep
AfterError(end) == "sleep"

\* lines 638-641: the seconds until tomorrow 08:00, for a check at `hour`
SecondsToNextRun(hour) == ((24 - hour) + WakeHour) * 3600

InitLoopsIdle ==
    /\ priceLoop = [pc |-> "sleep", last |-> "ok", slept |-> 0, recovered |-> FALSE]
    /\ calendarLoop = [pc |-> "sleep", hour |-> 0, last |-> "ok", slept |-> 0,
                       recovered |-> FALSE]

\* lines 746-747: the threads are started, at any hour of the day
InitLoops ==
    /\ priceLoop = [pc |-> "run", last |-> "ok", slept |-> 0, recovered |-> FALSE]
    /\ calendarLoop \in [pc : {"run"}, hour : 0..23, last : {"ok"}, slept : {0},
                          recovered : {FALSE}]

\* lines 244-262: one iteration, to the call of time.sleep(3600)
PriceIteration ==
    /\ priceLoop.pc = "run"
    /\ \E end \in PriceIterationEnds :
          priceLoop' = [priceLoop EXCEPT
                          !.pc = IF end = "ok" THEN "sleep" ELSE AfterError(end),
                          !.last = end,
                          !.slept = FallbackSleep]
    /\ UNCHANGED calendarLoop

\* line 262: time.sleep returns; line 243
PriceWake ==
    /\ priceLoop.pc = "sleep"
    /\ priceLoop' = [priceLoop EXCEPT !.pc = "run",
                                      !.recovered = @ \/ priceLoop.last # "ok"]
    /\ UNCHANGED calendarLoop

\* lines 602-645: one iteration, to the call of time.sleep
CalendarIteration ==
    /\ calendarLoop.pc = "run"
    /\ \E end \in CalendarIterationEnds :
          calendarLoop' = [calendarLoop EXCEPT
                             !.pc = IF end = "ok" THEN "sleep" ELSE AfterError(end),
                             !.last = end,
                             !.slept = IF end = "ok"
                                       THEN SecondsToNextRun(calendarLoop.hour)
                                       ELSE FallbackSleep]
    /\ UNCHANGED priceLoop

\* lines 642 and 645: time.sleep returns; line 601
CalendarWake ==
    /\ calendarLoop.pc = "sleep"
    /\ calendarLoop' = [calendarLoop EXCEPT
                           !.pc = "run",
                           !.hour = (@ + (calendarLoop.slept \div 3600)) % 24,
                           !.recovered = @ \/ calendarLoop.last # "ok"]
    /\ UNCHANGED priceLoop

PriceLoopNext == PriceIteration \/ PriceWake
CalendarLoopNext == CalendarIteration \/ CalendarWake

NextLoops ==
    \/ PriceIteration /\ UNCHANGED notLoopVars
    \/ PriceWake /\ UNCHANGED notLoopVars
    \/ CalendarIteration /\ UNCHANGED notLoopVars
    \/ CalendarWake /\ UNCHANGED notLoopVars

(***************************************************************************)
(* check_next_birthday (lines 599-645), one action per record of the       *)
(* iteration.  A record is its birthday_str: unset (''), invalid (strptime *)
(* raises ValueError) or a date.  send_notification (647-654) sends to the *)
(* group chat, then to the personal chat; bot.send_message may raise.      *)
(***************************************************************************)
RECURSIVE BackwardLoop(_, _)
\* lines 589-590
BackwardLoop(send, hol) ==
    IF NotBusinessDay(send, hol) THEN BackwardLoop(PrevDay(send), hol) ELSE send

RECURSIVE ScanLoop(_, _)
\* lines 564-565
ScanLoop(next, hol) ==
    IF NotBusinessDay(next, hol) THEN ScanLoop(NextDay(next), hol) ELSE next

\* lines 561-566
get_next_business_day(date, hol) == ScanLoop(NextDay(date), hol)

RECURSIVE TransitLoop(_, _)
\* lines 592-595
TransitLoop(send, hol) ==
    IF TransitTooLong(get_next_business_day(send, hol), send)
    THEN TransitLoop(Retreat(send), hol)
    ELSE send

\* lines 568-597
get_postcard_send_date(occurrence, hol) ==
    TransitLoop(BackwardLoop(MinusDays(occurrence,
                                       delivery_schedule(Weekday(occurrence))),
                             hol), hol)

\* the day the calendar thread starts: Monday 2025-01-06
StartDay == Date(2025, 1, 6)
\* holidays.NL around that day: New Year's Day
DutchHolidays == {Date(2025, 1, 1)}

Unset == [kind |-> "unset", date |-> Date(1990, 1, 1)]
Invalid == [kind |-> "invalid", date |-> Date(1990, 1, 1)]
OnFile(date) == [kind |-> "date", date |-> date]
\* the values of birthday_str: '', one that strptime rejects, a birthday on
\* 7 January (tomorrow on the first day, with the card due today), one on 29
\* February, one in June
BirthdayStrs == {Unset, Invalid, OnFile(Date(1990, 1, 7)), OnFile(Date(1992, 2, 29)),
                 OnFile(Date(1990, 6, 15))}

ReminderKinds == {"birthday", "postcard"}
\* the hours at which the thread starts: before 08:00, at 08:00, the last
\* hour in which line 632 lets a postcard reminder out, and late in the day
StartHours == {7, 8, 9, 23}

\* one more delivery, counted up to "twice or more"
Counted(n) == IF n >= 2 THEN 2 ELSE n + 1

\* what one call of send_notification does: both sends succeed, the first
\* raises, or the second raises after the first was delivered
SendOutcomes == {"ok", "first", "second"}
SendDelivered(outcome) == outcome # "first"
SendRaised(outcome) == outcome # "ok"

RemindersTaskIdle ==
    [pc |-> "sleep", i |-> 1, today |-> StartDay, hour |-> 0, day |-> 0,
     slept |-> 0, last |-> "ok"]

InitRemindersIdle ==
    /\ birthdays = <<>>
    /\ calTask = RemindersTaskIdle
    /\ visited = {}
    /\ remindersSent = [x \in {} |-> 0]

\* line 748 starts the thread at some hour; lines 604-607 of its first
\* iteration
InitReminders ==
    /\ birthdays \in [1..MaxRecords -> BirthdayStrs]
    /\ calTask \in [pc : {"record"}, i : {1}, today : {StartDay}, hour : StartHours,
                     day : {0}, slept : {0}, last : {"ok"}]
    /\ visited = {}
    /\ remindersSent = [x \in (1..MaxRecords) \X ReminderKinds |-> 0]

\* line 626
BirthdayReminderDue(occurrence, today) == days_left(occurrence, today) = 1

\* line 632
PostcardReminderDue(occurrence, today, hour) ==
    today = get_postcard_send_date(occurrence, DutchHolidays) /\ hour < 10

\* the iteration ends by the exception `error`: lines 643-645
IterationRaises(error) ==
    calTask' = [calTask EXCEPT !.pc = "sleep", !.slept = FallbackSleep,
                               !.last = error]

\* lines 611-636 for record i: skipped (612, 615-617), or evaluated for the
\* two reminders; an exception out of 618-621 or out of a send ends the
\* iteration
HandleRecord ==
    /\ calTask.pc = "record"
    /\ calTask.i <= Len(birthdays)
    /\ visited' = visited \cup {calTask.i}
    /\ LET i == calTask.i
           rec == birthdays[i]
           occ == this_year_birthday(rec.date, calTask.today)
           next == [calTask EXCEPT !.i = i + 1]
       IN IF rec.kind # "date"
          THEN calTask' = next /\ UNCHANGED remindersSent
          ELSE IF occ = None
          THEN IterationRaises("ValueError") /\ UNCHANGED remindersSent
          ELSE \E sb \in (IF BirthdayReminderDue(occ[1], calTask.today)
                           THEN SendOutcomes ELSE {"none"}) :
               \E sp \in (IF ~SendRaised(sb) \/ sb = "none"
                           THEN (IF PostcardReminderDue(occ[1], calTask.today,
                                                        calTask.hour)
                                 THEN SendOutcomes ELSE {"none"})
                           ELSE {"skipped"}) :
                 /\ remindersSent' =
                       [remindersSent EXCEPT
                          ![<<i, "birthday">>] =
                              IF sb \in SendOutcomes /\ SendDelivered(sb)
                              THEN Counted(@) ELSE @,
                          ![<<i, "postcard">>] =
                              IF sp \in SendOutcomes /\ SendDelivered(sp)
                              THEN Counted(@) ELSE @]
                 /\ IF (sb \in SendOutcomes /\ SendRaised(sb))
                        \/ (sp \in SendOutcomes /\ SendRaised(sp))
                    THEN IterationRaises("send")
                    ELSE calTask' = next
    /\ UNCHANGED birthdays

\* lines 638-642: every record was handled
FinishIteration ==
    /\ calTask.pc = "record"
    /\ calTask.i > Len(birthdays)
    /\ calTask' = [calTask EXCEPT !.pc = "sleep",
                                  !.slept = SecondsToNextRun(calTask.hour),
                                  !.last = "ok"]
    /\ UNCHANGED <<birthdays, visited, remindersSent>>

RECURSIVE PlusDays(_, _)
\* date + timedelta(days=n)
PlusDays(date, n) == IF n <= 0 THEN date ELSE PlusDays(NextDay(date), n - 1)

\* time.sleep returns, and lines 604-607 of the next iteration
WakeAndStart ==
    /\ calTask.pc = "sleep"
    /\ LET hours == calTask.hour + (calTask.slept \div 3600)
       IN /\ calTask.day + (hours \div 24) < MaxDays
          /\ calTask' = [calTask EXCEPT !.pc = "record", !.i = 1,
                                        !.hour = hours % 24,
                                        !.day = @ + (hours \div 24),
                                        !.today = PlusDays(@, hours \div 24)]
    /\ visited' = {}
    /\ UNCHANGED <<birthdays, remindersSent>>

notReminderVars == <<ladderVars, backoffVars, cacheVars, calendarVars, postcardVars,
                     loopVars, ladderRaceVars, cacheRaceVars, stalenessVars>>

NextReminders ==
    \/ HandleRecord /\ UNCHANGED notReminderVars
    \/ FinishIteration /\ UNCHANGED notReminderVars
    \/ WakeAndStart /\ UNCHANGED notReminderVars

(***************************************************************************)
(* get_bitcoin_price (lines 173-215) with get_mempool_data (116-148)       *)
(* inside it, one action per statement, on a clock that also advances      *)
(* while a call runs.  Each function reads datetime.now() once, at its     *)
(* entry (lines 176 and 119), and stamps its cache with that reading.  The *)
(* price an upstream fetch yields is the time of the fetch, so a snapshot  *)
(* tells when its price was obtained.                                      *)
(***************************************************************************)
PriceCallIdle ==
    [pc |-> "idle", current_time |-> 0, mempool_time |-> 0, mempool_data |-> None,
     price_change |-> None, calls |-> 0, elapsed |-> 0]

InitStalenessIdle ==
    /\ priceCall = PriceCallIdle
    /\ lastReturn = None

\* the call returns `data`
PriceReturn(data) ==
    /\ priceCall' = [priceCall EXCEPT !.pc = "idle"]
    /\ lastReturn' = IF data = None THEN lastReturn
                     ELSE Some([at |-> priceCall.current_time,
                                     obtained |-> data[1].eur])

\* line 176
PriceEnter ==
    /\ priceCall.pc = "idle"
    /\ priceCall.calls < MaxSnapshots
    /\ priceCall' = [priceCall EXCEPT !.pc = "178", !.current_time = now,
                                      !.calls = @ + 1, !.elapsed = 0]
    /\ UNCHANGED <<now, MEMPOOL_CACHE, BITCOIN_CACHE, lastReturn>>

\* lines 178-180
PriceTestFresh ==
    /\ priceCall.pc = "178"
    /\ IF Fresh(BITCOIN_CACHE, priceCall.current_time)
       THEN PriceReturn(BITCOIN_CACHE.data)
       ELSE priceCall' = [priceCall EXCEPT !.pc = "119"] /\ UNCHANGED lastReturn
    /\ UNCHANGED <<now, MEMPOOL_CACHE, BITCOIN_CACHE>>

\* line 185 calls get_mempool_data: line 119
MempoolEnter ==
    /\ priceCall.pc = "119"
    /\ priceCall' = [priceCall EXCEPT !.pc = "121", !.mempool_time = now]
    /\ UNCHANGED <<now, MEMPOOL_CACHE, BITCOIN_CACHE, lastReturn>>

\* lines 121-123
MempoolTestFresh ==
    /\ priceCall.pc = "121"
    /\ IF Fresh(MEMPOOL_CACHE, priceCall.mempool_time)
       THEN priceCall' = [priceCall EXCEPT !.pc = "186",
                                          !.mempool_data = MEMPOOL_CACHE.data]
       ELSE priceCall' = [priceCall EXCEPT !.pc = "143"]
    /\ UNCHANGED <<now, MEMPOOL_CACHE, BITCOIN_CACHE, lastReturn>>

\* lines 142-148: the fetch, made now, and the store
MempoolFetch ==
    /\ priceCall.pc = "143"
    /\ \E ok \in BOOLEAN :
          IF ok
          THEN LET data == Some([price_eur |-> now])
               IN /\ MEMPOOL_CACHE' = [data |-> data,
                                       last_updated |-> Some(priceCall.mempool_time)]
                  /\ priceCall' = [priceCall EXCEPT !.pc = "186", !.mempool_data = data]
          ELSE /\ priceCall' = [priceCall EXCEPT !.pc = "186", !.mempool_data = None]
               /\ UNCHANGED MEMPOOL_CACHE
    /\ UNCHANGED <<now, BITCOIN_CACHE, lastReturn>>

\* line 186
PriceChangeFetch ==
    /\ priceCall.pc = "186"
    /\ \E c \in {None, Some(6)} :
          priceCall' = [priceCall EXCEPT !.pc = "188", !.price_change = c]
    /\ UNCHANGED <<now, MEMPOOL_CACHE, BITCOIN_CACHE, lastReturn>>

\* lines 188-215: the snapshot from the mempool data, or from the fallback
\* fetch made now; the store and the return, or None when the fallback raises
PriceBuild ==
    /\ priceCall.pc = "188"
    /\ \E ok \in (IF priceCall.mempool_data # None THEN {TRUE} ELSE BOOLEAN) :
          IF ok
          THEN LET data ==
                     IF priceCall.mempool_data # None
                     THEN Some([eur |-> priceCall.mempool_data[1].price_eur,
                                eur_24h_change |-> priceCall.price_change])
                     ELSE Some([eur |-> now, eur_24h_change |-> Some(0)])
               IN /\ BITCOIN_CACHE' = [data |-> data,
                                       last_updated |-> Some(priceCall.current_time)]
                  /\ PriceReturn(data)
          ELSE PriceReturn(None) /\ UNCHANGED BITCOIN_CACHE
    /\ UNCHANGED <<now, MEMPOOL_CACHE>>

\* a second passes while the call runs
TickInCall ==
    /\ priceCall.pc # "idle"
    /\ priceCall.elapsed < MaxCallSeconds
    /\ now + 1 <= MaxTicks * (TTL + 1)
    /\ now' = now + 1
    /\ priceCall' = [priceCall EXCEPT !.elapsed = @ + 1]
    /\ UNCHANGED <<MEMPOOL_CACHE, BITCOIN_CACHE, lastReturn>>

\* time passes between two calls
TickBetweenCalls ==
    /\ priceCall.pc = "idle"
    /\ \E d \in {TTL - 1, TTL} :
          /\ now + d <= MaxTicks * (TTL + 1)
          /\ now' = now + d
    /\ UNCHANGED <<MEMPOOL_CACHE, BITCOIN_CACHE, priceCall, lastReturn>>

notStalenessVars == <<cacheCall, ladderVars, backoffVars, calendarVars, postcardVars,
                      loopVars, ladderRaceVars, cacheRaceVars, reminderVars>>

NextStaleness ==
    \/ PriceEnter /\ UNCHANGED notStalenessVars
    \/ PriceTestFresh /\ UNCHANGED notStalenessVars
    \/ MempoolEnter /\ UNCHANGED notStalenessVars
    \/ MempoolTestFresh /\ UNCHANGED notStalenessVars
    \/ MempoolFetch /\ UNCHANGED notStalenessVars
    \/ PriceChangeFetch /\ UNCHANGED notStalenessVars
    \/ PriceBuild /\ UNCHANGED notStalenessVars
    \/ TickInCall /\ UNCHANGED notStalenessVars
    \/ TickBetweenCalls /\ UNCHANGED notStalenessVars

(***************************************************************************)
(* check_and_notify_price_threshold run by two threads at once: the        *)
(* price-check thread (started at line 748, call at line 250) and the      *)
(* thread that runs the /bitcoin handler (line 416).  The function takes   *)
(* no lock, and the interpreter may switch threads between any two         *)
(* statements, so each action is one statement of one thread: a test of    *)
(* the shared dict and the update that follows it are separate steps.      *)
(*   pc  "idle", or the line the thread is about to execute                *)
(***************************************************************************)
Threads == {"task", "handler"}

ThreadIdle == [pc |-> "idle", price |-> 0, next_threshold |-> 0, i |-> 0,
               threshold |-> 0, calls |-> 0]

\* the threads inside the function
Inside == {t \in Threads : ladderThreads[t].pc # "idle"}

InitLadderRaceIdle ==
    /\ ladderThreads = [t \in Threads |-> ThreadIdle]
    /\ lastCompleted = None
    /\ overlapped = FALSE

\* the variables of the ladder that the statements below leave alone
ladderOtherVars == <<chat_ids, delivered, everNotified, lastCall, taskPc,
                     taskRetries, taskPrice, taskChange, taskIter>>

notLadderRaceVars == <<ladderOtherVars, backoffVars, cacheVars, calendarVars,
                       postcardVars, loopVars, cacheRaceVars, reminderVars,
                       stalenessVars>>

\* thread t moves to line pc with its locals changed as in `locals`
Goto(t, locals) ==
    /\ ladderThreads' = [ladderThreads EXCEPT ![t] = locals]
    /\ overlapped' = (overlapped \/ \A u \in Threads :
                                       IF u = t THEN locals.pc # "idle"
                                       ELSE ladderThreads[u].pc # "idle")

\* lines 217-220: the call, with the price of the caller's snapshot
LadderEnter(t) ==
    /\ ladderThreads[t].pc = "idle"
    /\ ladderThreads[t].calls < MaxCalls
    /\ \E price \in Prices :
          Goto(t, [ladderThreads[t] EXCEPT !.pc = "222", !.price = price,
                      !.next_threshold = NextThreshold(price),
                      !.calls = @ + 1])
    /\ UNCHANGED <<LAST_NOTIFIED_PRICE, persisted, emitted, lastCompleted>>

\* line 222: the test
LadderTestThreshold(t) ==
    /\ ladderThreads[t].pc = "222"
    /\ IF ~Contains(LAST_NOTIFIED_PRICE.thresholds, ladderThreads[t].next_threshold)
       THEN Goto(t, [ladderThreads[t] EXCEPT !.pc = "223"])
       ELSE Goto(t, [ladderThreads[t] EXCEPT !.pc = "226", !.i = 1])
    /\ UNCHANGED <<LAST_NOTIFIED_PRICE, persisted, emitted, lastCompleted>>

\* line 223
LadderAppendThreshold(t) ==
    /\ ladderThreads[t].pc = "223"
    /\ LAST_NOTIFIED_PRICE' =
          [LAST_NOTIFIED_PRICE EXCEPT
              !.thresholds = Append(@, ladderThreads[t].next_threshold)]
    /\ Goto(t, [ladderThreads[t] EXCEPT !.pc = "224"])
    /\ UNCHANGED <<persisted, emitted, lastCompleted>>

\* line 224, and the start of the for loop of line 226
LadderSortThresholds(t) ==
    /\ ladderThreads[t].pc = "224"
    /\ LAST_NOTIFIED_PRICE' =
          [LAST_NOTIFIED_PRICE EXCEPT !.thresholds = ListSort(@)]
    /\ Goto(t, [ladderThreads[t] EXCEPT !.pc = "226", !.i = 1])
    /\ UNCHANGED <<persisted, emitted, lastCompleted>>

\* line 226: the list iterator yields the element at its index, or the loop
\* ends
LadderForThreshold(t) ==
    /\ ladderThreads[t].pc = "226"
    /\ IF ladderThreads[t].i <= Len(LAST_NOTIFIED_PRICE.thresholds)
       THEN Goto(t, [ladderThreads[t] EXCEPT !.pc = "227",
                        !.threshold = LAST_NOTIFIED_PRICE.thresholds[ladderThreads[t].i],
                        !.i = @ + 1])
       ELSE Goto(t, [ladderThreads[t] EXCEPT !.pc = "238"])
    /\ UNCHANGED <<LAST_NOTIFIED_PRICE, persisted, emitted, lastCompleted>>

\* line 227: the test
LadderTestCrossed(t) ==
    /\ ladderThreads[t].pc = "227"
    /\ IF Crossed(ladderThreads[t].price, ladderThreads[t].threshold,
                  LAST_NOTIFIED_PRICE.notified)
       THEN Goto(t, [ladderThreads[t] EXCEPT !.pc = "228"])
       ELSE Goto(t, [ladderThreads[t] EXCEPT !.pc = "226"])
    /\ UNCHANGED <<LAST_NOTIFIED_PRICE, persisted, emitted, lastCompleted>>

\* lines 228-229: the threshold is recorded and its event is made
LadderAppendNotified(t) ==
    /\ ladderThreads[t].pc = "228"
    /\ LAST_NOTIFIED_PRICE' =
          [LAST_NOTIFIED_PRICE EXCEPT
              !.notified = Append(@, ladderThreads[t].threshold)]
    /\ emitted' = [emitted EXCEPT ![ladderThreads[t].threshold] = @ + 1]
    /\ Goto(t, [ladderThreads[t] EXCEPT !.pc = "231"])
    /\ UNCHANGED <<persisted, lastCompleted>>

\* lines 230-236: the sends of the event; if one raises, the exception
\* leaves the function
LadderSend(t) ==
    /\ ladderThreads[t].pc = "231"
    /\ \E ok \in BOOLEAN :
          Goto(t, [ladderThreads[t] EXCEPT !.pc = IF ok THEN "226" ELSE "idle"])
    /\ UNCHANGED <<LAST_NOTIFIED_PRICE, persisted, emitted, lastCompleted>>

\* line 238
LadderSetPrice(t) ==
    /\ ladderThreads[t].pc = "238"
    /\ LAST_NOTIFIED_PRICE' = SetPrice(LAST_NOTIFIED_PRICE, ladderThreads[t].price)
    /\ Goto(t, [ladderThreads[t] EXCEPT !.pc = "239"])
    /\ UNCHANGED <<persisted, emitted, lastCompleted>>

\* line 239, and the return
LadderSave(t) ==
    /\ ladderThreads[t].pc = "239"
    /\ persisted' = save_last_notified_price(LAST_NOTIFIED_PRICE)
    /\ lastCompleted' = Some(ladderThreads[t].price)
    /\ Goto(t, [ladderThreads[t] EXCEPT !.pc = "idle"])
    /\ UNCHANGED <<LAST_NOTIFIED_PRICE, emitted>>

NextLadderRace ==
    \/ \E t \in Threads : LadderEnter(t) /\ UNCHANGED notLadderRaceVars
    \/ \E t \in Threads : LadderTestThreshold(t) /\ UNCHANGED notLadderRaceVars
    \/ \E t \in Threads : LadderAppendThreshold(t) /\ UNCHANGED notLadderRaceVars
    \/ \E t \in Threads : LadderSortThresholds(t) /\ UNCHANGED notLadderRaceVars
    \/ \E t \in Threads : LadderForThreshold(t) /\ UNCHANGED notLadderRaceVars
    \/ \E t \in Threads : LadderTestCrossed(t) /\ UNCHANGED notLadderRaceVars
    \/ \E t \in Threads : LadderAppendNotified(t) /\ UNCHANGED notLadderRaceVars
    \/ \E t \in Threads : LadderSend(t) /\ UNCHANGED notLadderRaceVars
    \/ \E t \in Threads : LadderSetPrice(t) /\ UNCHANGED notLadderRaceVars
    \/ \E t \in Threads : LadderSave(t) /\ UNCHANGED notLadderRaceVars

(***************************************************************************)
(* get_mempool_data run by two threads at once: both the price-check       *)
(* thread (line 245) and a command handler (line 384) reach it through     *)
(* line 185.  The function takes no lock; each action is one statement of  *)
(* one thread, and the clock may advance between any two statements.       *)
(* get_bitcoin_price has the same shape around BITCOIN_CACHE (lines 176,   *)
(* 178-180, 185-207, 210).                                                 *)
(***************************************************************************)
CacheThreadIdle == [pc |-> "idle", current_time |-> 0, data |-> 0, calls |-> 0]

InsideCache == {t \in Threads : cacheThreads[t].pc # "idle"}

InitCacheRaceIdle ==
    /\ cacheThreads = [t \in Threads |-> CacheThreadIdle]
    /\ fetchCount = 0
    /\ fetchedWhileFresh = FALSE
    /\ regressed = FALSE
    /\ cacheOverlapped = FALSE

\* the two groups of thread variables, at rest
InitRaceIdle ==
    InitLadderRaceIdle /\ InitCacheRaceIdle /\ InitRemindersIdle /\ InitStalenessIdle

notCacheRaceVars == <<BITCOIN_CACHE, cacheCall, ladderVars, backoffVars, calendarVars,
                      postcardVars, loopVars, ladderRaceVars, reminderVars,
                      stalenessVars>>

\* thread t moves on with its locals changed as in `locals`
CacheGoto(t, locals) ==
    /\ cacheThreads' = [cacheThreads EXCEPT ![t] = locals]
    /\ cacheOverlapped' = (cacheOverlapped \/ \A u \in Threads :
                                                 IF u = t THEN locals.pc # "idle"
                                                 ELSE cacheThreads[u].pc # "idle")

\* line 119
CacheEnter(t) ==
    /\ cacheThreads[t].pc = "idle"
    /\ cacheThreads[t].calls < MaxCalls
    /\ CacheGoto(t, [cacheThreads[t] EXCEPT !.pc = "121", !.current_time = now,
                         !.calls = @ + 1])
    /\ UNCHANGED <<now, MEMPOOL_CACHE, fetchCount, fetchedWhileFresh, regressed>>

\* lines 121-123: the test, and the return of the cached value
CacheTestFresh(t) ==
    /\ cacheThreads[t].pc = "121"
    /\ IF Fresh(MEMPOOL_CACHE, cacheThreads[t].current_time)
       THEN CacheGoto(t, [cacheThreads[t] EXCEPT !.pc = "idle"])
       ELSE CacheGoto(t, [cacheThreads[t] EXCEPT !.pc = "143"])
    /\ UNCHANGED <<now, MEMPOOL_CACHE, fetchCount, fetchedWhileFresh, regressed>>

\* line 143: the upstream fetch, which returns the upstream's value of the
\* moment or raises (lines 146-148: None is returned)
CacheFetch(t) ==
    /\ cacheThreads[t].pc = "143"
    /\ fetchCount' = fetchCount + 1
    /\ fetchedWhileFresh' = (fetchedWhileFresh \/ Fresh(MEMPOOL_CACHE, now))
    /\ \E ok \in BOOLEAN :
          IF ok
          THEN CacheGoto(t, [cacheThreads[t] EXCEPT !.pc = "144",
                                !.data = fetchCount + 1])
          ELSE CacheGoto(t, [cacheThreads[t] EXCEPT !.pc = "idle"])
    /\ UNCHANGED <<now, MEMPOOL_CACHE, regressed>>

\* lines 144-145
CacheStore(t) ==
    /\ cacheThreads[t].pc = "144"
    /\ MEMPOOL_CACHE' = [data |-> Some([price_eur |-> cacheThreads[t].data]),
                         last_updated |-> Some(cacheThreads[t].current_time)]
    /\ regressed' = (regressed \/ (/\ MEMPOOL_CACHE.data # None
                                   /\ MEMPOOL_CACHE.data[1].price_eur >
                                         cacheThreads[t].data))
    /\ CacheGoto(t, [cacheThreads[t] EXCEPT !.pc = "idle"])
    /\ UNCHANGED <<now, fetchCount, fetchedWhileFresh>>

\* time passes
CacheTick ==
    /\ \E d \in TickSteps :
          /\ now + d <= MaxTicks * (TTL + 1)
          /\ now' = now + d
    /\ UNCHANGED <<MEMPOOL_CACHE, cacheRaceVars>>

NextCacheRace ==
    \/ \E t \in Threads : CacheEnter(t) /\ UNCHANGED notCacheRaceVars
    \/ \E t \in Threads : CacheTestFresh(t) /\ UNCHANGED notCacheRaceVars
    \/ \E t \in Threads : CacheFetch(t) /\ UNCHANGED notCacheRaceVars
    \/ \E t \in Threads : CacheStore(t) /\ UNCHANGED notCacheRaceVars
    \/ CacheTick /\ UNCHANGED notCacheRaceVars

\* the ladder's variables, at rest
InitLadderIdle == InitLadder /\ chat_ids = <<"", "">>

\* the calendar's, the postcard's and the loops' variables, at rest
InitIdleRest ==
    InitCalendarIdle /\ InitPostcardIdle /\ InitLoopsIdle /\ InitRaceIdle

InitLadderSpec == InitLadder /\ InitBackoffIdle /\ InitCacheIdle /\ InitIdleRest
SpecLadder == InitLadderSpec /\ [][NextLadder]_vars

InitCacheSpec == InitLadderIdle /\ InitBackoffIdle /\ InitCacheIdle /\ InitIdleRest
SpecCache == InitCacheSpec /\ [][NextCache]_vars

InitBackoffSpec == InitLadderIdle /\ InitBackoffIdle /\ InitCacheIdle /\ InitIdleRest
SpecBackoff == InitBackoffSpec /\ [][NextBackoff]_vars

\* the ladder as an earlier invocation with price 30500 left it
LadderAfter30500 == check_and_notify_price_threshold(DefaultLadder, 30500, <<>>, -1)

\* the two threads are about to call the ladder, which is as line 104 or as
\* an earlier invocation left it
InitLadderRace ==
    /\ ladderThreads = [t \in Threads |-> ThreadIdle]
    /\ lastCompleted \in {None, Some(30500)}
    /\ overlapped = FALSE
    /\ LAST_NOTIFIED_PRICE = IF lastCompleted = None THEN DefaultLadder
                             ELSE LadderAfter30500.ladder
    /\ persisted = IF lastCompleted = None THEN None ELSE LadderAfter30500.saved
    /\ chat_ids = <<"group", "personal">>
    /\ emitted = [t \in AllThresholds |-> 0]
    /\ delivered = {}
    /\ everNotified = {}
    /\ lastCall = [tick |-> 0, price |-> 0, events |-> <<>>, sends |-> <<>>,
                   raised |-> FALSE]
    /\ taskPc = "idle"
    /\ taskRetries = 0
    /\ taskPrice = 0
    /\ taskChange = None
    /\ taskIter = [due |-> FALSE, alerts |-> <<>>]

InitLadderRaceSpec ==
    /\ InitLadderRace /\ InitBackoffIdle /\ InitCacheIdle
    /\ InitCalendarIdle /\ InitPostcardIdle /\ InitLoopsIdle /\ InitCacheRaceIdle
    /\ InitRemindersIdle /\ InitStalenessIdle
SpecLadderRace == InitLadderRaceSpec /\ [][NextLadderRace]_vars

InitCacheRaceSpec == InitLadderIdle /\ InitBackoffIdle /\ InitCacheIdle /\ InitIdleRest
SpecCacheRace == InitCacheRaceSpec /\ [][NextCacheRace]_vars

InitRemindersSpec ==
    /\ InitLadderIdle /\ InitBackoffIdle /\ InitCacheIdle
    /\ InitCalendarIdle /\ InitPostcardIdle /\ InitLoopsIdle
    /\ InitLadderRaceIdle /\ InitCacheRaceIdle /\ InitReminders /\ InitStalenessIdle
SpecReminders == InitRemindersSpec /\ [][NextReminders]_vars

InitStalenessSpec == InitLadderIdle /\ InitBackoffIdle /\ InitCacheIdle /\ InitIdleRest
SpecStaleness == InitStalenessSpec /\ [][NextStaleness]_vars

InitCalendarSpec ==
    /\ InitLadderIdle /\ InitBackoffIdle /\ InitCacheIdle
    /\ InitCalendar /\ InitPostcardIdle /\ InitLoopsIdle /\ InitRaceIdle
SpecCalendar == InitCalendarSpec /\ [][NextCalendar]_vars

InitPostcardSpec ==
    /\ InitLadderIdle /\ InitBackoffIdle /\ InitCacheIdle
    /\ InitCalendarIdle /\ InitPostcard /\ InitLoopsIdle /\ InitRaceIdle
SpecPostcard == InitPostcardSpec /\ [][NextPostcard]_vars
\* the thread that runs the function keeps running
SpecPostcardFair == SpecPostcard /\ WF_vars(NextPostcard)

InitLoopsSpec ==
    /\ InitLadderIdle /\ InitBackoffIdle /\ InitCacheIdle
    /\ InitCalendarIdle /\ InitPostcardIdle /\ InitLoops /\ InitRaceIdle
SpecLoops == InitLoopsSpec /\ [][NextLoops]_vars
\* each thread keeps being scheduled, and each call it makes returns or raises
SpecLoopsFair ==
    SpecLoops /\ WF_vars(PriceLoopNext /\ UNCHANGED notLoopVars)
              /\ WF_vars(CalendarLoopNext /\ UNCHANGED notLoopVars)

(***************************************************************************)
(* Properties of the ladder, checked under SpecLadder.                     *)
(***************************************************************************)
Thresholds == LAST_NOTIFIED_PRICE.thresholds
Notified == LAST_NOTIFIED_PRICE.notified
StrictlyIncreasing(seq) == \A i \in 1..(Len(seq) - 1) : seq[i] < seq[i + 1]
SomeChatConfigured == \E i \in 1..Len(chat_ids) : chat_ids[i] # ""
DeliveredOnce(t) == \E i \in 1..Len(chat_ids) : <<t, chat_ids[i]>> \in delivered

\* a step that is an invocation of check_and_notify_price_threshold
Invoked == lastCall'.tick # lastCall.tick

\* C1: no threshold value ever has more than one 'price crossed' event
\* emitted for it, over any sequence of invocations made one at a time.
C1_AtMostOnce == \A t \in DOMAIN emitted : emitted[t] <= 1

\* C1 witness: a threshold has had its event and a delivery, and the last
\* invocation saw a price at or above it again and emitted nothing.
C1_Witness ==
    \E t \in DOMAIN emitted :
        /\ emitted[t] = 1
        /\ DeliveredOnce(t)
        /\ lastCall.price >= t
        /\ lastCall.events = <<>>
        /\ ~lastCall.raised

\* what a step that is an invocation returning normally does (lines 221-239)
C2_Step ==
    LET p == lastCall'.price
        next == CHOOSE m \in (p + 1)..(p + 1000) : m % 1000 = 0
        crossed == {t \in SeqSet(Thresholds') : p >= t /\ t \notin SeqSet(Notified)}
        ev == lastCall'.events
    IN (Invoked /\ ~lastCall'.raised) =>
          /\ SeqSet(Thresholds') = SeqSet(Thresholds) \cup {next}
          /\ StrictlyIncreasing(Thresholds')
          /\ SeqSet(ev) = crossed
          /\ StrictlyIncreasing(ev)
          /\ \A t \in crossed : emitted'[t] = emitted[t] + 1
          /\ \A t \in DOMAIN emitted \ crossed : emitted'[t] = emitted[t]
          /\ SeqSet(Notified') = SeqSet(Notified) \cup crossed
          /\ LAST_NOTIFIED_PRICE'.price = p

\* C2: an invocation with price p that returns normally on state S leaves
\* thresholds = S.thresholds plus the next multiple of 1000 above p, sorted
\* ascending; emits exactly one event, in ascending order, for each threshold
\* t of the updated ladder with p >= t that was not in S.notified; adds exactly
\* those t to notified; and sets the stored price to p.
C2_StepSemantics == [][C2_Step]_vars

\* C2 witness: the end-to-end scenario, {29000, [30000], []} with a price of
\* 30500, has given one event for 30000 and {30500, [30000, 31000], [30000]}.
C2_Witness ==
    /\ LAST_NOTIFIED_PRICE =
          [price |-> 30500, thresholds |-> <<30000, 31000>>, notified |-> <<30000>>]
    /\ lastCall.price = 30500
    /\ lastCall.events = <<30000>>
    /\ lastCall.sends = <<<<30000, "group", TRUE>>, <<30000, "personal", TRUE>>>>
    /\ ~lastCall.raised
    /\ persisted = Some(LAST_NOTIFIED_PRICE)

\* C3: in every reachable state, also after invocations aborted by a failed
\* send, notified is a subset of thresholds, thresholds is strictly
\* increasing, and no value that was once in notified has been removed.
C3_LadderInvariant ==
    /\ SeqSet(Notified) \subseteq SeqSet(Thresholds)
    /\ StrictlyIncreasing(Thresholds)
    /\ everNotified \subseteq SeqSet(Notified)

\* C3 witness: an invocation was aborted by a failed send after it had inserted
\* a threshold below an existing one and marked a threshold notified.
C3_Witness ==
    /\ lastCall.raised
    /\ Len(Thresholds) >= 2
    /\ Len(Notified) >= 1
    /\ NextThreshold(lastCall.price) # Thresholds[Len(Thresholds)]

\* C9: every threshold marked notified has had its 'price crossed' message
\* delivered to the sink at least once (given a configured recipient), once
\* the price-check task is out of its retries.
C9_AtLeastOnce ==
    (taskPc = "idle" /\ SomeChatConfigured) =>
        \A t \in SeqSet(Notified) : DeliveredOnce(t)

\* A threshold that is notified and undelivered stays undelivered: line 228
\* skips it in every later invocation.
UndeliveredForever ==
    [][\A t \in SeqSet(Notified) : ~DeliveredOnce(t) => ~DeliveredOnce(t)']_vars

\* C10: whenever an invocation has ended, normally or because a send failed,
\* last_notified.json holds the in-memory ladder state.
C10_Persisted ==
    lastCall.tick # 0 => persisted = Some(LAST_NOTIFIED_PRICE)

\* What does hold: the file holds the state left by the last invocation that
\* returned normally.
PersistedAfterNormalReturn ==
    (lastCall.tick # 0 /\ ~lastCall.raised) => persisted = Some(LAST_NOTIFIED_PRICE)

\* C11: when an iteration of the price-check task has ended whose snapshot had
\* an absolute 24h change above 5% and a price other than the last recorded
\* one, the volatility alert has been sent to every configured recipient.
C11_VolatilityAlert ==
    (taskPc = "idle" /\ taskIter.due) =>
        \A i \in 1..Len(chat_ids) :
            chat_ids[i] # "" => Contains(taskIter.alerts, chat_ids[i])

\* What does hold: no iteration sends a volatility alert.  Line 238 has made
\* the recorded price equal to the current one before line 252 compares them.
AlertNeverSent == taskIter.alerts = <<>>

(***************************************************************************)
(* Properties of api_request_with_backoff, checked under SpecBackoff.      *)
(***************************************************************************)
\* a transient failure: ApiException with error_code 502
IsTransient(o) == o.kind = "api" /\ o.val = 502
\* a permanent failure: any other exception
IsPermanent(o) == o.kind # "ok" /\ ~IsTransient(o)
AllTransientBefore(j) == \A i \in 1..(j - 1) : IsTransient(bo.calls[i])

\* C6: if func fails with a transient error on its first k invocations
\* (k < max_retries) and then succeeds, func is invoked exactly k + 1 times,
\* the wrapper returns func's result, and the sleeps are
\* initial_delay * 2^0, ..., initial_delay * 2^(k-1), in that order.
C6_BackoffTiming ==
    \A j \in 1..Len(bo.calls) :
        (bo.calls[j].kind = "ok" /\ AllTransientBefore(j) /\ j - 1 < bo.max_retries) =>
            /\ Len(bo.calls) = j
            /\ bo.status = "returned"
            /\ bo.result = Some(bo.calls[j])
            /\ Len(bo.sleeps) = j - 1
            /\ \A i \in 1..(j - 1) : bo.sleeps[i] = bo.initial_delay * 2 ^ (i - 1)

\* C6 witness: with the defaults, two transient failures and then a success:
\* three invocations, sleeps of 1 and 2 seconds.
C6_Witness ==
    /\ bo.status = "returned"
    /\ bo.max_retries = DefaultMaxRetries
    /\ bo.initial_delay = DefaultInitialDelay
    /\ Len(bo.calls) = 3
    /\ IsTransient(bo.calls[1]) /\ IsTransient(bo.calls[2])
    /\ bo.sleeps = <<1, 2>>

\* C7: whenever an invocation of func fails with a permanent error, that same
\* error is raised to the caller at once: it is the last invocation, and
\* there is no sleep but those that followed the earlier transient failures.
C7_PermanentPropagates ==
    \A j \in 1..Len(bo.calls) :
        IsPermanent(bo.calls[j]) =>
            /\ Len(bo.calls) = j
            /\ bo.status = "raised"
            /\ bo.result = Some(bo.calls[j])
            /\ Len(bo.sleeps) = Cardinality({i \in 1..(j - 1) : IsTransient(bo.calls[i])})

\* C7 witness: an ApiException with a code other than 502 on the first
\* invocation: one invocation, no sleep, the error raised.
C7_Witness ==
    /\ bo.status = "raised"
    /\ bo.calls = <<[kind |-> "api", val |-> 400]>>
    /\ bo.result = Some([kind |-> "api", val |-> 400])
    /\ bo.sleeps = <<>>

\* C8: func is never invoked more than max_retries times, and a call in
\* which every invocation failed with a transient error ends after exactly
\* max_retries invocations with the error of line 71, which is no value and
\* no error of func.
C8_Exhaustion ==
    /\ Len(bo.calls) <= bo.max_retries
    /\ (bo.status \in {"returned", "raised"} /\ AllTransientBefore(Len(bo.calls) + 1)) =>
          /\ Len(bo.calls) = bo.max_retries
          /\ bo.status = "raised"
          /\ bo.result = Some(MaxRetriesReached)
    /\ MaxRetriesReached \notin OpOutcomes

\* C8 witness: with the default max_retries, five transient failures and then
\* the error of line 71.
C8_Witness ==
    /\ bo.status = "raised"
    /\ bo.result = Some(MaxRetriesReached)
    /\ bo.max_retries = DefaultMaxRetries
    /\ Len(bo.calls) = 5
    /\ Len(bo.sleeps) = 5

(***************************************************************************)
(* Properties of the caches, checked under SpecCache.                      *)
(***************************************************************************)
\* a step that is a call of get_mempool_data or of get_bitcoin_price
CacheInvoked == cacheCall'.tick # cacheCall.tick /\ cacheCall'.fn # "change"
\* the cache a call record is about
CacheOf(call, mempool_cache, bitcoin_cache) ==
    IF call.fn = "mempool" THEN mempool_cache ELSE bitcoin_cache
\* a value is cached and is less than 60 seconds old at time t
CachedAndYoung(cache, t) ==
    /\ cache.data # None
    /\ cache.last_updated # None
    /\ t - cache.last_updated[1] < 60
\* the call's refresh failed: its fetch (for get_bitcoin_price the last
\* resort, fetch_coingecko) was invoked and raised
RefreshFailed(call) ==
    /\ call.fetches # <<>>
    /\ call.fetches[Len(call.fetches)] =
          <<IF call.fn = "mempool" THEN "mempool" ELSE "fallback", FALSE>>

\* what a step that is a call of a cache function does with the cache
C4_Step ==
    LET before == CacheOf(cacheCall', MEMPOOL_CACHE, BITCOIN_CACHE)
        after == CacheOf(cacheCall', MEMPOOL_CACHE', BITCOIN_CACHE')
    IN CacheInvoked =>
         IF CachedAndYoung(before, now)
         THEN /\ cacheCall'.ret = before.data
              /\ cacheCall'.fetches = <<>>
              /\ after = before
         ELSE Len(cacheCall'.fetches) >= 1

\* C4: for each cache, a call made while a value is cached and less than
\* 60 s old returns the cached data, makes no upstream fetch and leaves the
\* cache as it is; a call made with no cached value or with a value 60 s old
\* or older makes an upstream fetch.
C4_CacheFreshness == [][C4_Step]_vars

\* C4 witness: get_bitcoin_price called 59 s after a refresh has returned the
\* cached snapshot without a fetch.
C4_Witness ==
    /\ cacheCall.fn = "bitcoin"
    /\ cacheCall.fetches = <<>>
    /\ BITCOIN_CACHE.data # None
    /\ cacheCall.ret = BITCOIN_CACHE.data
    /\ now - BITCOIN_CACHE.last_updated[1] = 59

\* what a step that is a call whose refresh failed, or that follows one, does
C5_Step ==
    LET before == CacheOf(cacheCall', MEMPOOL_CACHE, BITCOIN_CACHE)
        after == CacheOf(cacheCall', MEMPOOL_CACHE', BITCOIN_CACHE')
    IN /\ (CacheInvoked /\ RefreshFailed(cacheCall')) =>
            /\ cacheCall'.ret = None
            /\ after = before
            /\ ~CachedAndYoung(after, now')
       /\ (CacheInvoked /\ RefreshFailed(cacheCall) /\ cacheCall'.fn = cacheCall.fn) =>
            Len(cacheCall'.fetches) >= 1

\* C5: when the fetch of a cache refresh fails, the call returns None and not
\* the cached value, the cached value and its stamp are left as they were
\* (so the cache holds nothing young), and the next call of the function,
\* however soon, makes an upstream fetch again.
C5_FailureIsolation == [][C5_Step]_vars

\* C5 witness: a refresh of get_bitcoin_price has failed while a snapshot
\* 60 s old or older stays cached, and the call returned None.
C5_Witness ==
    /\ cacheCall.fn = "bitcoin"
    /\ RefreshFailed(cacheCall)
    /\ cacheCall.ret = None
    /\ BITCOIN_CACHE.data # None
    /\ now - BITCOIN_CACHE.last_updated[1] >= 60

\* a fetch of the call failed
SomeFetchFailed(call) == \E i \in 1..Len(call.fetches) : ~call.fetches[i][2]
\* the call's fallback fetch succeeded
FallbackSucceeded(call) == Contains(call.fetches, <<"fallback", TRUE>>)
\* the fetch of fetcher `name` was made by the call and failed
FetchOfFailed(call, name) == Contains(call.fetches, <<name, FALSE>>)

\* C18 as stated: no call of the three functions raises, and a call in which
\* an upstream fetch failed and no fallback succeeded returns None.
C18_NoDataOnFailure ==
    /\ ~cacheCall.raised
    /\ (SomeFetchFailed(cacheCall) /\ ~FallbackSucceeded(cacheCall)) =>
          cacheCall.ret = None

\* C18 amended: no call of the three functions raises; get_mempool_data and
\* get_coingecko_price_change return None when their fetch failed;
\* get_bitcoin_price returns None exactly when it has no price (no mempool
\* data, and the fallback fetch failed), and when only the 24h-change fetch
\* failed it returns the snapshot with the change 'N/A'.
C18_Degrades ==
    /\ ~cacheCall.raised
    /\ (cacheCall.fn = "mempool" /\ FetchOfFailed(cacheCall, "mempool")) =>
          cacheCall.ret = None
    /\ (cacheCall.fn = "change" /\ FetchOfFailed(cacheCall, "change")) =>
          cacheCall.ret = None
    /\ cacheCall.fn = "bitcoin" =>
          /\ (cacheCall.ret = None) <=>
                (cacheCall.tick # 0 /\ FetchOfFailed(cacheCall, "fallback"))
          /\ (FetchOfFailed(cacheCall, "change")
                /\ ~Contains(cacheCall.fetches, <<"fallback", FALSE>>)
                /\ ~FallbackSucceeded(cacheCall)) =>
                   /\ cacheCall.ret # None
                   /\ cacheCall.ret[1].eur_24h_change = None

\* C18 witness: a call of get_bitcoin_price in which the mempool fetch, the
\* 24h-change fetch and the fallback fetch all failed has returned None.
C18_Witness ==
    /\ cacheCall.fn = "bitcoin"
    /\ cacheCall.fetches = <<<<"mempool", FALSE>>, <<"change", FALSE>>,
                             <<"fallback", FALSE>>>>
    /\ cacheCall.ret = None
    /\ ~cacheCall.raised

(***************************************************************************)
(* Properties of the ladder run by two threads, checked under              *)
(* SpecLadderRace.                                                         *)
(***************************************************************************)
NoDuplicates(seq) == \A i, j \in 1..Len(seq) : seq[i] = seq[j] => i = j

\* each threshold has had at most one event
AtMostOneEvent == \A th \in DOMAIN emitted : emitted[th] <= 1

\* last_notified.json holds the price of the invocation that completed last
PersistedByLastCompleted ==
    lastCompleted # None =>
        persisted # None /\ persisted[1].price = lastCompleted[1]

\* at most one thread is inside check_and_notify_price_threshold
LadderMutualExclusion == Cardinality(Inside) <= 1

\* C19: in every interleaving of the price-check task and the /bitcoin
\* handler inside check_and_notify_price_threshold, each threshold gets at
\* most one event, notified and thresholds hold no duplicate entries, and
\* the persisted state is the one left by the last completed call.
C19_LadderUnderConcurrency ==
    /\ AtMostOneEvent
    /\ NoDuplicates(LAST_NOTIFIED_PRICE.notified)
    /\ NoDuplicates(LAST_NOTIFIED_PRICE.thresholds)
    /\ PersistedByLastCompleted

\* As long as the two threads have never been inside together, the outcomes
\* of C19 hold: what breaks them is the interleaving.
SerialLadderIsSound == ~overlapped => C19_LadderUnderConcurrency

(***************************************************************************)
(* Properties of a cache used by two threads, checked under SpecCacheRace. *)
(***************************************************************************)
\* at most one thread is inside get_mempool_data
CacheMutualExclusion == Cardinality(InsideCache) <= 1

\* C20: in every interleaving of two threads inside the same cache function,
\* no upstream fetch is made in the 60 s after a successful refresh, and no
\* caller replaces a cached value with one fetched before it.
C20_CacheUnderConcurrency == ~fetchedWhileFresh /\ ~regressed

\* As long as the two threads have never been inside together, the outcomes
\* of C20 hold: what breaks them is the interleaving.
SerialCacheIsSound == ~cacheOverlapped => C20_CacheUnderConcurrency

(***************************************************************************)
(* Properties of the calendar-check task, checked under SpecReminders.     *)
(***************************************************************************)
\* C23: over a run of the task, iterations re-run after an error included,
\* each reminder is delivered at most once per record for an occurrence (the
\* run lasts MaxDays days: one occurrence per record).
C23_RemindersAtMostOnce ==
    \A x \in DOMAIN remindersSent : remindersSent[x] <= 1

\* Within one iteration no reminder is delivered twice: a reminder delivered
\* twice was delivered by two iterations.
OneIterationSendsOnce ==
    [][\A x \in DOMAIN remindersSent : remindersSent'[x] <= remindersSent[x] + 1]_vars

(***************************************************************************)
(* Properties of the age of a returned snapshot, checked under             *)
(* SpecStaleness.                                                          *)
(***************************************************************************)
\* C27: every snapshot get_bitcoin_price returns was obtained from the
\* upstream less than 60 s before the moment it is returned, the moment being
\* the clock reading the call made on entry.
C27_StalenessBound ==
    lastReturn # None => lastReturn[1].at - lastReturn[1].obtained < TTL

\* What holds instead: a returned snapshot is less than two TTLs old; each
\* cache's stamp is a clock reading from before the fetch, never a later one.
TwoTTLBound ==
    /\ lastReturn # None => lastReturn[1].at - lastReturn[1].obtained < 2 * TTL
    /\ MEMPOOL_CACHE.data # None =>
          MEMPOOL_CACHE.last_updated[1] <= MEMPOOL_CACHE.data[1].price_eur

\* A snapshot built in the call that returns it is less than a TTL old, from
\* a young mempool cache included.
BuiltSnapshotIsYoung ==
    [][(priceCall.pc = "188" /\ priceCall'.pc = "idle" /\ lastReturn' # lastReturn)
         => lastReturn'[1].at - lastReturn'[1].obtained < TTL]_vars

(***************************************************************************)
(* Properties of an iteration over the records, checked under              *)
(* SpecReminders.                                                          *)
(***************************************************************************)
\* the records with a set date
SetRecords == {i \in 1..Len(birthdays) : birthdays[i].kind # "unset"}

\* the iteration has ended and the thread sleeps
IterationOver == calTask.pc = "sleep"

\* C25: when an iteration is over, it has reached every record with a set
\* date, whatever happened while it handled the records before.
C25_IterationCoversAllRecords == IterationOver => SetRecords \subseteq visited

\* What holds instead: an iteration that raised nothing reached every
\* record, and an invalid date string stops no iteration.
CoversAllUnlessRaised ==
    /\ (IterationOver /\ calTask.last = "ok") => visited = 1..Len(birthdays)
    /\ (IterationOver /\ calTask.last # "ok") =>
          \E i \in visited : /\ birthdays[i].kind = "date"
                              /\ \A j \in visited : j <= i

(***************************************************************************)
(* Properties of the calendar thread's sleep, checked under SpecLoops.     *)
(***************************************************************************)
\* the seconds from `hour` o'clock to the next 08:00 after it: today's when
\* it is earlier than 08:00, otherwise tomorrow's
SecondsToNextWakeHour(hour) ==
    IF hour < WakeHour THEN (WakeHour - hour) * 3600
    ELSE ((24 - hour) + WakeHour) * 3600

\* the calendar thread sleeps after an iteration that ended without error
SleepsAfterSuccess == calendarLoop.pc = "sleep" /\ calendarLoop.last = "ok"

\* C24: after an iteration that started at `now` and completed without
\* error, the task sleeps exactly until the next 08:00 after now.
C24_DailyWakeTime ==
    SleepsAfterSuccess => calendarLoop.slept = SecondsToNextWakeHour(calendarLoop.hour)

\* What holds instead: the sleep always ends at tomorrow's 08:00, which is
\* the next 08:00 only for an iteration that started at 08:00 or later.
WakesTomorrowAtEight ==
    SleepsAfterSuccess =>
        /\ (calendarLoop.hour + (calendarLoop.slept \div 3600)) = 24 + WakeHour
        /\ calendarLoop.hour >= WakeHour =>
              calendarLoop.slept = SecondsToNextWakeHour(calendarLoop.hour)

\* the recipients that are configured
Recipients == {chat_ids[i] : i \in {j \in 1..Len(chat_ids) : chat_ids[j] # ""}}

\* the sends of the last ladder invocation for event `threshold` to `chat`
SendsOf(threshold, chat) ==
    {i \in 1..Len(lastCall.sends) :
        lastCall.sends[i][1] = threshold /\ lastCall.sends[i][2] = chat}

\* C22: for every event of an invocation the send is invoked exactly once
\* for each configured recipient, whether or not a send to the other
\* recipient failed.
C22_OneSendPerRecipient ==
    \A e \in SeqSet(lastCall.events), chat \in Recipients :
        Cardinality(SendsOf(e, chat)) = 1

\* What holds instead: no recipient gets two sends for an event, and every
\* recipient gets one as long as no send of the invocation has raised.
OneSendUnlessRaised ==
    \A e \in SeqSet(lastCall.events), chat \in Recipients :
        /\ Cardinality(SendsOf(e, chat)) <= 1
        /\ ~lastCall.raised => Cardinality(SendsOf(e, chat)) = 1

\* the provider signalled temporary unavailability: a 502, whichever
\* exception class carries it
GatewaySignal(outcome) == outcome.kind # "ok" /\ outcome.val = TransientCode

\* C21: a fetch that fails with the provider's 502 is retried with backoff:
\* the call never ends by propagating that failure.
C21_TransientFetchRetried ==
    ~(bo.status = "raised" /\ GatewaySignal(bo.result[1]))

\* What holds instead: a 502 carried by ApiException is never propagated,
\* and one carried by another class is propagated by the very pass that met
\* it, with no sleep for it.
GatewaySignalOfRequestsPropagates ==
    (bo.status = "raised" /\ GatewaySignal(bo.result[1])) =>
        /\ bo.result[1].kind = "other"
        /\ bo.calls[Len(bo.calls)] = bo.result[1]
        /\ Len(bo.sleeps) = Len(bo.calls) - 1

\* the call was a get_bitcoin_price refresh whose 24h-change fetch failed
ChangeFetchFailed(call) == call.fn = "bitcoin" /\ FetchOfFailed(call, "change")

\* the step is the next call of get_bitcoin_price
NextBitcoinCall == cacheCall'.tick # cacheCall.tick /\ cacheCall'.fn = "bitcoin"

C26_Step == (ChangeFetchFailed(cacheCall) /\ NextBitcoinCall) => cacheCall'.fetches # <<>>

\* C26: after a get_bitcoin_price refresh whose 24h-change fetch failed, the
\* next get_bitcoin_price call, however soon, invokes the upstream fetches
\* again.
C26_CombinedFailureIsolation == [][C26_Step]_vars

ServedFromFailedRefresh ==
    (ChangeFetchFailed(cacheCall) /\ NextBitcoinCall /\ cacheCall'.fetches = <<>>) =>
        /\ cacheCall.ret # None
        /\ ~FallbackSucceeded(cacheCall) => cacheCall.ret[1].eur_24h_change = None
        /\ cacheCall'.ret = cacheCall.ret

\* What holds instead: when the next call makes no fetch, the failed refresh
\* had a price, and the call returns that refresh's snapshot, whose 24h
\* change is 'N/A' unless the price came from the fallback.
FailedRefreshIsCached == [][ServedFromFailedRefresh]_vars

(***************************************************************************)
(* Properties of the next occurrence, checked under SpecCalendar.          *)
(***************************************************************************)
\* the month and day of the birthday make a date in year y
InYear(y) == calBirthday.month \in 1..12 /\
             calBirthday.day \in 1..DaysInMonth(y, calBirthday.month)
\* that date is before today
BeforeToday(y) ==
    ToOrdinal(Date(y, calBirthday.month, calBirthday.day)) < ToOrdinal(calToday)
\* the year the occurrence is in: this year unless the date is before today
TargetYear ==
    IF InYear(calToday.year) /\ BeforeToday(calToday.year)
    THEN calToday.year + 1 ELSE calToday.year
\* the dates from today on with the birthday's month and day, by ordinal
LaterOccurrences ==
    {o \in {ToOrdinal(Date(y, calBirthday.month, calBirthday.day)) :
               y \in {z \in calToday.year..(calToday.year + 2) : InYear(z)}} :
        o >= ToOrdinal(calToday)}

\* C12: when the birthday's month and day make a date in this year and in the
\* target year, the occurrence computed is that date of this year if it is
\* not before today and of next year otherwise; it is the earliest date from
\* today on with that month and day; days_left is its distance from today,
\* never negative, and 0 exactly when the month and day are today's.
C12_NextOccurrence ==
    (calResult # None /\ InYear(calToday.year) /\ InYear(TargetYear)) =>
        LET r == calResult[1]
        IN /\ r.occurrence =
                 Some(Date(TargetYear, calBirthday.month, calBirthday.day))
           /\ \A o \in LaterOccurrences : ToOrdinal(r.occurrence[1]) <= o
           /\ ToOrdinal(r.occurrence[1]) \in LaterOccurrences
           /\ r.days_left = ToOrdinal(r.occurrence[1]) - ToOrdinal(calToday)
           /\ r.days_left >= 0
           /\ (r.days_left = 0) <=>
                 (calBirthday.month = calToday.month /\ calBirthday.day = calToday.day)

\* C12 witness: the documented case.  On 2024-03-10 a birthday on 1 January
\* is next on 2025-01-01, 297 days ahead.
C12_Witness ==
    /\ calToday = Date(2024, 3, 10)
    /\ calBirthday = Date(1990, 1, 1)
    /\ calResult = Some([occurrence |-> Some(Date(2025, 1, 1)), days_left |-> 297])

(***************************************************************************)
(* Properties of get_postcard_send_date, checked under SpecPostcard and    *)
(* (termination) under SpecPostcardFair.                                   *)
(***************************************************************************)
Returned == postcardPc = "done"
IsWeekend(date) == Weekday(date) \in {5, 6}
IsHoliday(date) == date \in nl_holidays
\* the dates strictly between two dates
DatesBetween(a, b) == DatesFrom(NextDay(a), ToOrdinal(b) - ToOrdinal(a) - 1)

\* C13: the send_date returned is not a Saturday, not a Sunday and not a
\* holiday, whatever the occurrence and the holiday calendar.
C13_SendDateIsBusinessDay ==
    Returned => ~IsWeekend(send_date[1]) /\ ~IsHoliday(send_date[1])

\* C14: on return, delivery_date is the earliest date after send_date that
\* is no weekend day and no holiday, and is at most 4 days after send_date.
C14_TransitBound ==
    Returned =>
        /\ ToOrdinal(delivery_date[1]) > ToOrdinal(send_date[1])
        /\ ~IsWeekend(delivery_date[1]) /\ ~IsHoliday(delivery_date[1])
        /\ \A d \in DatesBetween(send_date[1], delivery_date[1]) :
               IsWeekend(d) \/ IsHoliday(d)
        /\ ToOrdinal(delivery_date[1]) - ToOrdinal(send_date[1]) <= 4

\* C14 witness: the transit loop has moved send_date back, and before that
\* the delivery was 5 days after the send date.
C14_Witness ==
    /\ Returned
    /\ NextDay(send_date[1]) = delivery_date[1]
    /\ \A d \in DatesFrom(NextDay(delivery_date[1]), 4) : IsWeekend(d) \/ IsHoliday(d)

\* C15: on return, the predicted delivery_date is on or before the
\* occurrence, whatever its weekday and the holiday calendar.
C15_ArrivesOnTime ==
    Returned => ToOrdinal(delivery_date[1]) <= ToOrdinal(birthday_date)

\* no run of 5 or more days in a row that are weekend days or holidays
NoFiveClosedDays ==
    \A d \in DatesFrom(Date(2024, 12, 12), 35) :
        \E x \in DatesFrom(d, 5) : ~IsWeekend(x) /\ ~IsHoliday(x)

\* C16: with a holiday calendar that never has 5 or more non-business days
\* in a row, get_postcard_send_date returns: the backward scan, every forward
\* scan and the transit loop end.
C16_Terminates == NoFiveClosedDays => <>Returned

\* C16 witness: the function has returned after the transit loop moved
\* send_date back, under a calendar without 5 closed days in a row.
C16_Witness ==
    /\ Returned
    /\ NoFiveClosedDays
    /\ nl_holidays # {}
    /\ NextDay(send_date[1]) = delivery_date[1]
    /\ \A d \in DatesFrom(NextDay(delivery_date[1]), 4) : IsWeekend(d) \/ IsHoliday(d)

(***************************************************************************)
(* Properties of the background loops, checked under SpecLoopsFair.        *)
(***************************************************************************)
LoopAlive(loop) == loop.pc \in {"run", "sleep"}
SleepsAfterError(loop) ==
    (loop.pc = "sleep" /\ loop.last # "ok") => loop.slept = 3600

\* C17: in both loops an exception raised in an iteration is caught and
\* followed by a sleep (of an hour), after which another iteration starts:
\* neither thread ever ends, whatever the other one raises, and each is in an
\* iteration infinitely often and asleep infinitely often.
C17_TasksRestart ==
    /\ [](LoopAlive(priceLoop) /\ LoopAlive(calendarLoop))
    /\ [](SleepsAfterError(priceLoop) /\ SleepsAfterError(calendarLoop))
    /\ []<>(priceLoop.pc = "run") /\ []<>(priceLoop.pc = "sleep")
    /\ []<>(calendarLoop.pc = "run") /\ []<>(calendarLoop.pc = "sleep")

\* C17 witness: the price loop is in an iteration that began after one that
\* raised, while the calendar loop, which has recovered from an error before,
\* sleeps after another one.
C17_Witness ==
    /\ priceLoop.pc = "run" /\ priceLoop.recovered /\ priceLoop.last = "ladder"
    /\ calendarLoop.pc = "sleep" /\ calendarLoop.recovered
    /\ calendarLoop.last = "ValueError" /\ calendarLoop.slept = 3600

====
